---- MODULE Spec2Model ----
(***************************************************************************)
(* A model of the media server's playback delivery and watch-session       *)
(* engine: src/app.py (watch sessions, real-time commands, asset serving)  *)
(* and src/playback/service.py (mode selection, tokens, path resolution).  *)
(*                                                                         *)
(* Time and positions are integers in microseconds: datetime.utcnow() has  *)
(* microsecond resolution and positions are float seconds.                 *)
(***************************************************************************)
EXTENDS Integers, Sequences, FiniteSets, TLC

VARIABLES
    now,             \* wall clock, microseconds
    watch_sessions,  \* table watch_sessions: sequence of rows, id = index
    participants,    \* table watch_session_participants: sequence of rows
    rooms,           \* socket rooms: set of <<user, watch_session_id>>
    lastDrift,       \* time of the drift-correction loop's last wake-up
    steps,           \* number of steps taken so far: requests, wake-ups, clock advances
    ev,              \* the last operation: its inputs and what it sent back
    playback_sessions, \* table playback_sessions: sequence of rows, id = index
    files,           \* the files under the playback output root
    held,            \* the playback tokens handed to clients so far
    drift_running,   \* whether the background task of _drift_correction_loop is alive
    handlers         \* the command handlers begun so far, in arrival order, with what each loaded

vars == <<now, watch_sessions, participants, rooms, lastDrift, steps, ev,
         playback_sessions, files, held, drift_running, handlers>>

-----------------------------------------------------------------------------
(* Bounds of the model *)

MaxWatch == 2
MaxSteps == 3

(* Units and program constants, in microseconds *)

MicrosPerSecond == 1000000
RoundQuantum == 1000
SyncTolerance == 1000000
DriftSleep == 2000000
DriftWindow == 45000000

-----------------------------------------------------------------------------
(* Inputs *)

NoUser == 0
Users == {1, 2}
Callers == Users \cup {NoUser}
MediaIds == {1}
JoinCodes == {"AAAAAA", "BBBBBB"}
Actions == {"play", "pause", "seek", "state_sync"}

\* position_seconds of a payload: <<>> is an absent key, <<v>> a value
NoPosition == <<>>
RequestedPositions ==
    {NoPosition, <<0 - 5000000>>, <<1000000>>, <<120000000>>}

Deltas == {400, 500, 2000000}

Max(a, b) == IF a >= b THEN a ELSE b
Abs(a) == IF a >= 0 THEN a ELSE 0 - a

-----------------------------------------------------------------------------
(* Watch-session state: src/app.py *)

\* round(x, 3) of a non-negative number of seconds: the nearest multiples of a
\* millisecond. A value half way between two is decided by the float's binary
\* expansion, so both neighbours are possible results.
Round3(x) ==
    LET lo == (x \div RoundQuantum) * RoundQuantum
        r  == x % RoundQuantum
    IN  IF r = 0 THEN {x}
        ELSE IF 2 * r < RoundQuantum THEN {lo}
        ELSE IF 2 * r > RoundQuantum THEN {lo + RoundQuantum}
        ELSE {lo, lo + RoundQuantum}

\* a read that forgets the elapsed time of a playing session
CurrentPositionStale(w, t) == w.current_position_seconds

\* current_position of _watch_session_state_payload and _update_watch_session_state
CurrentPosition(w, t) ==
    IF w.is_playing
    THEN w.current_position_seconds + Max(0, t - w.last_state_updated_at)
    ELSE w.current_position_seconds

\* _watch_session_state_payload: the payloads a read at time t can return
StatePayloads(id, w, t) ==
    { [ watch_session_id |-> id,
        join_code        |-> w.join_code,
        media_id         |-> w.media_file_id,
        is_playing       |-> w.is_playing,
        position_seconds |-> p,
        server_time      |-> t ] : p \in Round3(CurrentPosition(w, t)) }


\* an update that leaves the checkpoint timestamp where it was
UpdateKeepingCheckpoint(w, action, requested_position, t) ==
    LET extrapolated == CurrentPosition(w, t)
        position == IF requested_position # NoPosition
                    THEN Max(0, requested_position[1])
                    ELSE extrapolated
        playing == IF action = "play" THEN TRUE
                   ELSE IF action = "pause" THEN FALSE
                   ELSE w.is_playing
    IN  [w EXCEPT !.is_playing = playing,
                  !.current_position_seconds = position]

\* an update that stores the requested position as it came
UpdateUnclamped(w, action, requested_position, t) ==
    [w EXCEPT !.is_playing = IF action = "play" THEN TRUE
                             ELSE IF action = "pause" THEN FALSE
                             ELSE w.is_playing,
              !.current_position_seconds = IF requested_position # NoPosition
                                           THEN requested_position[1]
                                           ELSE CurrentPosition(w, t),
              !.last_state_updated_at = t]

\* an update that re-anchors the stored position without the time played
UpdateDroppingElapsed(w, action, requested_position, t) ==
    [w EXCEPT !.is_playing = IF action = "play" THEN TRUE
                             ELSE IF action = "pause" THEN FALSE
                             ELSE w.is_playing,
              !.current_position_seconds = IF requested_position # NoPosition
                                           THEN Max(0, requested_position[1])
                                           ELSE w.current_position_seconds,
              !.last_state_updated_at = t]

\* _update_watch_session_state
UpdateWatchSessionState(w, action, requested_position, t) ==
    LET extrapolated == CurrentPosition(w, t)
        position == IF requested_position # NoPosition
                    THEN Max(0, requested_position[1])
                    ELSE extrapolated
        playing == IF action = "play" THEN TRUE
                   ELSE IF action = "pause" THEN FALSE
                   ELSE w.is_playing
    IN  [w EXCEPT !.is_playing = playing,
                  !.current_position_seconds = position,
                  !.last_state_updated_at = t]

\* query(WatchSessionParticipant).filter(watch_session_id, user_id).first()
ParticipantRows(wsid, user) ==
    { i \in 1..Len(participants) :
        /\ participants[i].watch_session_id = wsid
        /\ participants[i].user_id = user }

FirstParticipant(wsid, user) ==
    CHOOSE i \in ParticipantRows(wsid, user) :
        \A j \in ParticipantRows(wsid, user) : i <= j

\* query(WatchSession).filter(join_code == code).first()
SessionsWithCode(code) ==
    { i \in 1..Len(watch_sessions) : watch_sessions[i].join_code = code }

FirstSessionWithCode(code) ==
    CHOOSE i \in SessionsWithCode(code) : \A j \in SessionsWithCode(code) : i <= j


\* a broadcast that emits nothing
BroadcastNothing(wsid, sessions, t) == { {} }

\* a broadcast emitted to the room of every watch session
BroadcastToEveryRoom(wsid, sessions, t) ==
    IF wsid \in 1..Len(sessions)
    THEN { {[room |-> r, payload |-> p] : r \in 1..Len(sessions)} :
             p \in StatePayloads(wsid, sessions[wsid], t) }
    ELSE { {} }

\* _broadcast_watch_state: the state_sync messages one call can emit to the room
BroadcastWatchState(wsid, sessions, t) ==
    IF wsid \in 1..Len(sessions)
    THEN { {[room |-> wsid, payload |-> p]} : p \in StatePayloads(wsid, sessions[wsid], t) }
    ELSE { {} }

NoReply == [kind |-> "none"]
ErrorReply(msg) == [kind |-> "error", error |-> msg]
StateReply(p) == [kind |-> "state_sync", payload |-> p]

Event(op, user, wsid, arg, reply, bcast) ==
    [op |-> op, user |-> user, wsid |-> wsid, arg |-> arg, reply |-> reply, bcast |-> bcast]

-----------------------------------------------------------------------------
(* Strings are sequences of one-character strings *)

StartsWith(s, p) == Len(p) <= Len(s) /\ SubSeq(s, 1, Len(p)) = p
EndsWith(s, p) == Len(p) <= Len(s) /\ SubSeq(s, Len(s) - Len(p) + 1, Len(s)) = p

\* str.split('/')
RECURSIVE SplitAt(_, _, _, _)
SplitAt(s, i, cur, acc) ==
    IF i > Len(s) THEN Append(acc, cur)
    ELSE IF s[i] = "/" THEN SplitAt(s, i + 1, <<>>, Append(acc, cur))
    ELSE SplitAt(s, i + 1, Append(cur, s[i]), acc)

Split(s) == SplitAt(s, 1, <<>>, <<>>)

\* '/'.join(parts)
RECURSIVE Join(_)
Join(parts) ==
    IF parts = <<>> THEN <<>>
    ELSE IF Len(parts) = 1 THEN parts[1]
    ELSE parts[1] \o <<"/">> \o Join(Tail(parts))

\* str.lstrip('/')
RECURSIVE LStripSlash(_)
LStripSlash(s) == IF s # <<>> /\ Head(s) = "/" THEN LStripSlash(Tail(s)) ELSE s

\* str(n) of a natural number
DecimalDigits == <<"0", "1", "2", "3", "4", "5", "6", "7", "8", "9">>

RECURSIVE Decimal(_)
Decimal(n) ==
    IF n < 10 THEN <<DecimalDigits[n + 1]>>
    ELSE Append(Decimal(n \div 10), DecimalDigits[(n % 10) + 1])

Dot == <<".">>
DotDot == <<".", ".">>

\* the loop of posixpath.normpath over the components of a path
RECURSIVE NormComps(_, _, _, _)
NormComps(comps, i, new, initial_slashes) ==
    IF i > Len(comps) THEN new
    ELSE LET comp == comps[i] IN
         IF comp = <<>> \/ comp = Dot
         THEN NormComps(comps, i + 1, new, initial_slashes)
         ELSE IF \/ comp # DotDot
                 \/ (initial_slashes = 0 /\ new = <<>>)
                 \/ (new # <<>> /\ new[Len(new)] = DotDot)
         THEN NormComps(comps, i + 1, Append(new, comp), initial_slashes)
         ELSE IF new # <<>>
         THEN NormComps(comps, i + 1, SubSeq(new, 1, Len(new) - 1), initial_slashes)
         ELSE NormComps(comps, i + 1, new, initial_slashes)

\* os.path.normpath (posixpath)
Normpath(path) ==
    IF path = <<>> THEN Dot
    ELSE LET initial_slashes ==
                 IF ~StartsWith(path, <<"/">>) THEN 0
                 ELSE IF StartsWith(path, <<"/", "/">>) /\ ~StartsWith(path, <<"/", "/", "/">>)
                 THEN 2 ELSE 1
             joined == Join(NormComps(Split(path), 1, <<>>, initial_slashes))
             slashes == [k \in 1..initial_slashes |-> "/"]
             result == slashes \o joined
         IN  IF result = <<>> THEN Dot ELSE result

\* the parts pathlib keeps of a relative path: no empty part, no '.'
RECURSIVE PathParts(_, _)
PathParts(comps, i) ==
    IF i > Len(comps) THEN <<>>
    ELSE IF comps[i] = <<>> \/ comps[i] = Dot THEN PathParts(comps, i + 1)
    ELSE <<comps[i]>> \o PathParts(comps, i + 1)

\* Path.resolve() of an absolute path without symbolic links: '..' steps up
RECURSIVE ResolveParts(_, _, _)
ResolveParts(parts, i, acc) ==
    IF i > Len(parts) THEN acc
    ELSE IF parts[i] = DotDot
    THEN ResolveParts(parts, i + 1, IF acc = <<>> THEN acc ELSE SubSeq(acc, 1, Len(acc) - 1))
    ELSE ResolveParts(parts, i + 1, Append(acc, parts[i]))

\* str(path) of an absolute path given by its parts
PathString(parts) == <<"/">> \o Join(parts)

-----------------------------------------------------------------------------
(* Playback service: src/playback/service.py *)

M3U8 == <<".", "m", "3", "u", "8">>
MASTER_M3U8 == <<"m", "a", "s", "t", "e", "r", ".", "m", "3", "u", "8">>
HLS_720P == <<"h", "l", "s", "-", "7", "2", "0", "p">>

BASELINE_720P ==
    [ name |-> HLS_720P, max_height |-> 720,
      video_bitrate |-> <<"2", "8", "0", "0", "k">>,
      audio_bitrate |-> <<"1", "2", "8", "k">> ]

\* a nullable column: <<>> is None, <<v>> a value
None == <<>>

\* a direct-play test that forgets the codec
ChooseModeAnyCodec(media_file) ==
    IF EndsWith(media_file.file_path, M3U8) THEN "direct-play"
    ELSE IF /\ media_file.height # None
            /\ media_file.height[1] # 0
            /\ media_file.height[1] <= BASELINE_720P.max_height
            /\ media_file.container \in {<<"mp4">>, <<"mov">>}
    THEN "direct-play"
    ELSE "transcode"

\* PlaybackService.choose_mode
ChooseMode(media_file) ==
    IF EndsWith(media_file.file_path, M3U8) THEN "direct-play"
    ELSE IF /\ media_file.height # None
            /\ media_file.height[1] # 0
            /\ media_file.height[1] <= BASELINE_720P.max_height
            /\ media_file.container \in {<<"mp4">>, <<"mov">>}
            /\ media_file.video_codec \in {<<"h264">>, <<"hevc">>}
    THEN "direct-play"
    ELSE "transcode"

\* PLAYBACK_OUTPUT_ROOT, resolved: the parts of the output directory
OutputRootParts == << <<"o">> >>

\* (self.output_root / str(playback_session_id)).resolve()
BaseParts(playback_session_id) == Append(OutputRootParts, Decimal(playback_session_id))

\* (base / clean_relative).resolve()
CandidateParts(playback_session_id, relative_path) ==
    LET clean_relative == LStripSlash(Normpath(relative_path))
    IN  ResolveParts(BaseParts(playback_session_id) \o PathParts(Split(clean_relative), 1),
                     1, <<>>)

\* PlaybackService.resolve_output_path: None or the candidate path, as its parts
ResolveOutputPath(playback_session_id, relative_path) ==
    LET base == BaseParts(playback_session_id)
        candidate == CandidateParts(playback_session_id, relative_path)
    IN  IF ~StartsWith(PathString(candidate), PathString(base)) THEN None ELSE <<candidate>>

-----------------------------------------------------------------------------
(* Operations *)


\* a watch session that starts out playing
NewWatchSessionPlaying(user, media_id, code, t) ==
    [ join_code |-> code,
      host_user_id |-> user,
      media_file_id |-> media_id,
      created_at |-> t,
      is_active |-> TRUE,
      is_playing |-> TRUE,
      current_position_seconds |-> 0,
      last_state_updated_at |-> t ]

\* a watch session as create_watch_session stores it
NewWatchSession(user, media_id, code, t) ==
    [ join_code |-> code,
      host_user_id |-> user,
      media_file_id |-> media_id,
      created_at |-> t,
      is_active |-> TRUE,
      is_playing |-> FALSE,
      current_position_seconds |-> 0,
      last_state_updated_at |-> t ]

\* a participant row as create_watch_session and the joins store it
NewParticipant(wsid, user, t) ==
    [ watch_session_id |-> wsid, user_id |-> user, joined_at |-> t, last_seen_at |-> t ]

\* The tables outlive the process (create_all keeps their rows): the server
\* starts on a database in which user 1 has created one watch session.
Init ==
    /\ now = 0
    /\ watch_sessions = << NewWatchSession(1, 1, "AAAAAA", 0) >>
    /\ participants = << NewParticipant(1, 1, 0) >>
    /\ rooms = {}
    /\ lastDrift = 0
    /\ steps = 0
    /\ ev = Event("init", NoUser, 0, NoPosition, NoReply, {})
    /\ playback_sessions = <<>>
    /\ files = {}
    /\ held = {}
    /\ drift_running = TRUE
    /\ handlers = <<>>

\* the wall clock moves between requests
Advance(d) ==
    /\ steps < MaxSteps
    /\ steps' = steps + 1
    /\ now' = now + d
    /\ UNCHANGED <<watch_sessions, participants, rooms, lastDrift, drift_running, handlers, ev, playback_sessions, files, held>>

\* POST /api/watch-sessions
CreateWatchSession(user, media_id, code) ==
    /\ Len(watch_sessions) < MaxWatch
    /\ steps < MaxSteps
    /\ steps' = steps + 1
    /\ IF user = NoUser
       THEN /\ ev' = Event("create", user, 0, NoPosition, ErrorReply("authentication required"), {})
            /\ UNCHANGED <<watch_sessions, participants>>
       ELSE IF media_id \notin MediaIds
       THEN /\ ev' = Event("create", user, 0, NoPosition, ErrorReply("media item not found"), {})
            /\ UNCHANGED <<watch_sessions, participants>>
       ELSE IF SessionsWithCode(code) # {}
       THEN \* every attempt of _generate_join_code drew a code already in use
            /\ ev' = Event("create", user, 0, NoPosition, ErrorReply("unable to generate unique join code"), {})
            /\ UNCHANGED <<watch_sessions, participants>>
       ELSE LET id == Len(watch_sessions) + 1 IN
            /\ watch_sessions' = Append(watch_sessions,
                                        NewWatchSession(user, media_id, code, now))
            /\ participants' = Append(participants, NewParticipant(id, user, now))
            /\ ev' = Event("create", user, id, NoPosition, [kind |-> "created", join_code |-> code], {})
    /\ UNCHANGED <<now, rooms, lastDrift, drift_running, handlers, playback_sessions, files, held>>

\* a handler that leaves last_seen_at alone
SeenNever(wsid, user) == participants

\* participant.last_seen_at = datetime.utcnow()
Seen(wsid, user) ==
    IF ParticipantRows(wsid, user) = {}
    THEN participants
    ELSE [participants EXCEPT ![FirstParticipant(wsid, user)].last_seen_at = now]

\* the participant upsert shared by join_watch_session and socket_join
JoinedParticipants(wsid, user) ==
    IF ParticipantRows(wsid, user) = {}
    THEN Append(participants, NewParticipant(wsid, user, now))
    ELSE Seen(wsid, user)

\* POST /api/watch-sessions/join
JoinWatchSession(user, code) ==
    /\ steps < MaxSteps
    /\ steps' = steps + 1
    /\ IF user = NoUser
       THEN /\ ev' = Event("join", user, 0, NoPosition, ErrorReply("authentication required"), {})
            /\ UNCHANGED participants
       ELSE IF SessionsWithCode(code) = {} \/ ~watch_sessions[FirstSessionWithCode(code)].is_active
       THEN /\ ev' = Event("join", user, 0, NoPosition, ErrorReply("watch session not found"), {})
            /\ UNCHANGED participants
       ELSE LET wsid == FirstSessionWithCode(code) IN
            /\ participants' = JoinedParticipants(wsid, user)
            /\ \E p \in StatePayloads(wsid, watch_sessions[wsid], now) :
                  ev' = Event("join", user, wsid, NoPosition, StateReply(p), {})
    /\ UNCHANGED <<now, watch_sessions, rooms, lastDrift, drift_running, handlers, playback_sessions, files, held>>

\* a socket join that does not look at is_active
SocketJoinEnded(user, code) ==
    /\ steps < MaxSteps
    /\ steps' = steps + 1
    /\ IF user = NoUser \/ SessionsWithCode(code) = {}
       THEN /\ ev' = Event("socket_join", user, 0, NoPosition, ErrorReply("watch session not found"), {})
            /\ UNCHANGED <<participants, rooms>>
       ELSE LET wsid == FirstSessionWithCode(code) IN
            /\ participants' = JoinedParticipants(wsid, user)
            /\ rooms' = rooms \cup {<<user, wsid>>}
            /\ \E p \in StatePayloads(wsid, watch_sessions[wsid], now) :
                  ev' = Event("socket_join", user, wsid, NoPosition, StateReply(p), {})
    /\ UNCHANGED <<now, watch_sessions, lastDrift, drift_running, handlers, playback_sessions, files, held>>

\* socket event 'join'
SocketJoin(user, code) ==
    /\ steps < MaxSteps
    /\ steps' = steps + 1
    /\ IF user = NoUser
       THEN /\ ev' = Event("socket_join", user, 0, NoPosition, ErrorReply("authentication required"), {})
            /\ UNCHANGED <<participants, rooms>>
       ELSE IF SessionsWithCode(code) = {} \/ ~watch_sessions[FirstSessionWithCode(code)].is_active
       THEN /\ ev' = Event("socket_join", user, 0, NoPosition, ErrorReply("watch session not found"), {})
            /\ UNCHANGED <<participants, rooms>>
       ELSE LET wsid == FirstSessionWithCode(code) IN
            /\ participants' = JoinedParticipants(wsid, user)
            /\ rooms' = rooms \cup {<<user, wsid>>}
            /\ \E p \in StatePayloads(wsid, watch_sessions[wsid], now) :
                  ev' = Event("socket_join", user, wsid, NoPosition, StateReply(p), {})
    /\ UNCHANGED <<now, watch_sessions, lastDrift, drift_running, handlers, playback_sessions, files, held>>

\* socket event 'leave': wsid = 0 is a payload without watch_session_id
SocketLeave(user, wsid) ==
    /\ steps < MaxSteps
    /\ steps' = steps + 1
    /\ rooms' = IF wsid # 0 THEN rooms \ {<<user, wsid>>} ELSE rooms
    /\ ev' = Event("leave", user, wsid, NoPosition, NoReply, {})
    /\ UNCHANGED <<now, watch_sessions, participants, lastDrift, drift_running, handlers, playback_sessions, files, held>>

\* a reconciliation in which the client wins the disagreement
ReconciledToClient(w, requested_position, server_pos, t) ==
    IF requested_position # NoPosition
       /\ Abs(server_pos - requested_position[1]) > SyncTolerance
    THEN UpdateWatchSessionState(w, "seek", requested_position, t)
    ELSE w

\* the state_sync branch of _handle_playback_control: the session a passive
\* ping leaves behind, given the position the server read for itself
Reconciled(w, requested_position, server_pos, t) ==
    IF requested_position # NoPosition
       /\ Abs(server_pos - requested_position[1]) > SyncTolerance
    THEN UpdateWatchSessionState(w, "seek", <<server_pos>>, t)
    ELSE w

\* a handler that does not look for the caller's join record
HonoredWithoutJoin(user, wsid) ==
    /\ user # NoUser
    /\ wsid # 0
    /\ wsid \in 1..Len(watch_sessions)

\* whether _handle_playback_control honors a command of this caller
Honored(user, wsid) ==
    /\ user # NoUser
    /\ wsid # 0
    /\ ParticipantRows(wsid, user) # {}
    /\ wsid \in 1..Len(watch_sessions)

\* the error _handle_playback_control sends to a caller it does not honor
ControlError(user, wsid) ==
    IF user = NoUser THEN "authentication required"
    ELSE IF wsid = 0 THEN "watch_session_id is required"
    ELSE IF ParticipantRows(wsid, user) = {} THEN "join session before controlling playback"
    ELSE "watch session not found"

\* socket events 'play', 'pause', 'seek', 'state_sync': _handle_playback_control
HandlePlaybackControl(action, user, wsid, requested_position) ==
    /\ steps < MaxSteps
    /\ steps' = steps + 1
    /\ IF ~Honored(user, wsid)
       THEN /\ ev' = Event(action, user, wsid, requested_position,
                           ErrorReply(ControlError(user, wsid)), {})
            /\ UNCHANGED <<watch_sessions, participants>>
       ELSE /\ participants' = Seen(wsid, user)
            /\ \E server \in StatePayloads(wsid, watch_sessions[wsid], now) :
                 LET w == IF action # "state_sync"
                          THEN UpdateWatchSessionState(watch_sessions[wsid], action,
                                                       requested_position, now)
                          ELSE Reconciled(watch_sessions[wsid], requested_position,
                                          server.position_seconds, now)
                     after == [watch_sessions EXCEPT ![wsid] = w]
                 IN  /\ watch_sessions' = after
                     /\ \E b \in BroadcastWatchState(wsid, after, now) :
                           ev' = Event(action, user, wsid, requested_position, NoReply, b)
    /\ UNCHANGED <<now, rooms, lastDrift, drift_running, handlers, playback_sessions, files, held>>

\* every session that has a participant, however long ago it was seen
ActiveIdsEver(t) ==
    { participants[i].watch_session_id : i \in 1..Len(participants) }

\* the sessions one wake-up of _drift_correction_loop rebroadcasts
ActiveIds(t) ==
    { participants[i].watch_session_id : i \in
        { j \in 1..Len(participants) : participants[j].last_seen_at >= t - DriftWindow } }

\* all ways to emit one broadcast per session of ids
RECURSIVE Broadcasts(_, _, _)
Broadcasts(ids, sessions, t) ==
    IF ids = {} THEN { {} }
    ELSE LET id == CHOOSE i \in ids : TRUE IN
         { b \cup rest : b \in BroadcastWatchState(id, sessions, t),
                         rest \in Broadcasts(ids \ {id}, sessions, t) }

\* an iteration that moves the checkpoint of each session it rebroadcasts
DriftCorrectionAnchoring ==
    /\ drift_running
    /\ now >= lastDrift + DriftSleep
    /\ steps < MaxSteps
    /\ steps' = steps + 1
    /\ lastDrift' = now
    /\ watch_sessions' =
          [i \in 1..Len(watch_sessions) |->
              IF i \in ActiveIds(now)
              THEN [watch_sessions[i] EXCEPT
                       !.current_position_seconds = CurrentPosition(watch_sessions[i], now),
                       !.last_state_updated_at = now]
              ELSE watch_sessions[i]]
    /\ \E b \in Broadcasts(ActiveIds(now), watch_sessions', now) :
          ev' = Event("drift", NoUser, 0, NoPosition, NoReply, b)
    /\ UNCHANGED <<now, participants, rooms, playback_sessions, files, held,
                   drift_running, handlers>>

\* one iteration of _drift_correction_loop, after its sleep
DriftCorrection ==
    /\ drift_running
    /\ now >= lastDrift + DriftSleep
    /\ steps < MaxSteps
    /\ steps' = steps + 1
    /\ lastDrift' = now
    /\ \E b \in Broadcasts(ActiveIds(now), watch_sessions, now) :
          ev' = Event("drift", NoUser, 0, NoPosition, NoReply, b)
    /\ UNCHANGED <<now, watch_sessions, participants, rooms, playback_sessions, files, held,
                   drift_running, handlers>>

Next ==
    \/ \E d \in Deltas : Advance(d)
    \/ \E u \in Callers, m \in MediaIds \cup {99}, c \in JoinCodes : CreateWatchSession(u, m, c)
    \/ \E u \in Callers, c \in JoinCodes : JoinWatchSession(u, c)
    \/ \E u \in Callers, c \in JoinCodes : SocketJoin(u, c)
    \/ \E u \in Callers, w \in 0..MaxWatch : SocketLeave(u, w)
    \/ \E a \in Actions, u \in Callers, w \in 0..MaxWatch, p \in RequestedPositions :
          HandlePlaybackControl(a, u, w, p)
    \/ DriftCorrection

Spec == Init /\ [][Next]_vars

-----------------------------------------------------------------------------
(* The drift-correction loop across its recency window, with an ended session *)

\* WatchSession.is_active cleared: the row of a session that has been ended
Ended(w) == [w EXCEPT !.is_active = FALSE]

DriftDeltas == {DriftSleep, DriftWindow, DriftWindow + MicrosPerSecond}

\* a command without a position, and one that asks for 2 minutes
RacePositions == {NoPosition, <<120 * MicrosPerSecond>>}

\* The server starts on a database with two watch sessions, each joined by its
\* host only; the row of session 2 is kept with is_active cleared.
DriftInit ==
    /\ now = 0
    /\ watch_sessions = << NewWatchSession(1, 1, "AAAAAA", 0),
                           Ended(NewWatchSession(2, 1, "BBBBBB", 0)) >>
    /\ participants = << NewParticipant(1, 1, 0), NewParticipant(2, 2, 0) >>
    /\ rooms = {}
    /\ lastDrift = 0
    /\ steps = 0
    /\ ev = Event("init", NoUser, 0, NoPosition, NoReply, {})
    /\ playback_sessions = <<>>
    /\ files = {}
    /\ held = {}
    /\ drift_running = TRUE
    /\ handlers = <<>>

\* the codes of the two sessions, and a code no session has
DriftCodes == JoinCodes \cup {"CCCCCC"}

DriftNext ==
    \/ \E d \in DriftDeltas : Advance(d)
    \/ \E u \in Users, c \in DriftCodes : JoinWatchSession(u, c)
    \/ \E u \in Users, c \in DriftCodes : SocketJoin(u, c)
    \/ \E u \in Users, w \in 1..MaxWatch : SocketLeave(u, w)
    \/ \E a \in Actions, u \in Users, w \in 1..MaxWatch, p \in RacePositions :
          HandlePlaybackControl(a, u, w, p)
    \/ DriftCorrection

DriftSpec == DriftInit /\ [][DriftNext]_vars

\* One iteration of _drift_correction_loop in which the read or the emit of
\* _broadcast_watch_state raises for session `failing`, after the sessions of
\* `done` were rebroadcast (the query returns the ids in no stated order).
\* Nothing in the loop catches the exception: it leaves `while True` and the
\* background task ends.
DriftCorrectionRaises(failing, done) ==
    /\ drift_running
    /\ now >= lastDrift + DriftSleep
    /\ steps < MaxSteps
    /\ failing \in ActiveIds(now)
    /\ done \subseteq ActiveIds(now) \ {failing}
    /\ steps' = steps + 1
    /\ lastDrift' = now
    /\ drift_running' = FALSE
    /\ \E b \in Broadcasts(done, watch_sessions, now) :
          ev' = Event("drift", NoUser, failing, NoPosition, ErrorReply("raised"), b)
    /\ UNCHANGED <<now, watch_sessions, participants, rooms, playback_sessions, files, held,
                   handlers>>

FaultNext ==
    \/ DriftNext
    \/ \E failing \in 1..MaxWatch, done \in SUBSET (1..MaxWatch) :
          DriftCorrectionRaises(failing, done)

FaultSpec == DriftInit /\ [][FaultNext]_vars

-----------------------------------------------------------------------------
(* Command handlers running concurrently: each socket event is handled in   *)
(* its own thread or task, on its own database session, with no lock and no *)
(* row version between its read and its commit                              *)

MaxHandlers == 2

RaceActions == Actions \ {"state_sync"}
RaceDeltas == {MicrosPerSecond}

\* The server starts on a database in which user 1 has created watch session 1
\* and user 2 has joined it.
RaceInit ==
    /\ now = 0
    /\ watch_sessions = << NewWatchSession(1, 1, "AAAAAA", 0) >>
    /\ participants = << NewParticipant(1, 1, 0), NewParticipant(1, 2, 0) >>
    /\ rooms = {}
    /\ lastDrift = 0
    /\ steps = 0
    /\ ev = Event("init", NoUser, 0, NoPosition, NoReply, {})
    /\ playback_sessions = <<>>
    /\ files = {}
    /\ held = {}
    /\ drift_running = TRUE
    /\ handlers = <<>>

\* _handle_playback_control of a participant up to its commit: the handler
\* loads the session row into its own database session and mutates the loaded
\* object (the callers it turns away are those of HandlePlaybackControl)
BeginPlaybackControl(action, user, wsid, requested_position) ==
    /\ Len(handlers) < MaxHandlers
    /\ Honored(user, wsid)
    /\ handlers' = Append(handlers,
                          [ action |-> action, user |-> user, wsid |-> wsid,
                            arg |-> requested_position, t |-> now,
                            loaded |-> watch_sessions[wsid],
                            mutated |-> UpdateWatchSessionState(watch_sessions[wsid], action,
                                                                requested_position, now),
                            committed |-> FALSE ])
    /\ UNCHANGED <<now, watch_sessions, participants, rooms, lastDrift, steps, ev,
                   playback_sessions, files, held, drift_running>>

\* the UPDATE a flush emits: the columns whose value differs from the loaded
\* one, written over whatever the row holds by then
Flushed(stored, loaded, mutated) ==
    [ column \in DOMAIN stored |->
        IF mutated[column] # loaded[column] THEN mutated[column] ELSE stored[column] ]

\* db_session.commit() of handler i, then _broadcast_watch_state
CommitPlaybackControl(i) ==
    /\ i \in 1..Len(handlers)
    /\ ~handlers[i].committed
    /\ LET h == handlers[i]
           after == [watch_sessions EXCEPT
                       ![h.wsid] = Flushed(watch_sessions[h.wsid], h.loaded, h.mutated)]
       IN  /\ watch_sessions' = after
           /\ participants' =
                 [participants EXCEPT ![FirstParticipant(h.wsid, h.user)].last_seen_at = h.t]
           /\ \E b \in BroadcastWatchState(h.wsid, after, now) :
                 ev' = Event(h.action, h.user, h.wsid, h.arg, NoReply, b)
    /\ handlers' = [handlers EXCEPT ![i].committed = TRUE]
    /\ UNCHANGED <<now, rooms, lastDrift, steps, playback_sessions, files, held, drift_running>>

RaceNext ==
    \/ \E d \in RaceDeltas : Advance(d)
    \/ \E a \in RaceActions, u \in Users, p \in RacePositions : BeginPlaybackControl(a, u, 1, p)
    \/ \E i \in 1..MaxHandlers : CommitPlaybackControl(i)

RaceSpec == RaceInit /\ [][RaceNext]_vars

-----------------------------------------------------------------------------
(* Create-watch-session requests running concurrently: each request draws   *)
(* its join code against the table as it is then, and inserts later         *)

\* The server starts on an empty database.
CreateRaceInit ==
    /\ now = 0
    /\ watch_sessions = <<>>
    /\ participants = <<>>
    /\ rooms = {}
    /\ lastDrift = 0
    /\ steps = 0
    /\ ev = Event("init", NoUser, 0, NoPosition, NoReply, {})
    /\ playback_sessions = <<>>
    /\ files = {}
    /\ held = {}
    /\ drift_running = TRUE
    /\ handlers = <<>>

\* create_watch_session of an authenticated caller up to its flush:
\* _generate_join_code returns a code that no row carries at that moment
BeginCreateWatchSession(user, media_id, code) ==
    /\ Len(handlers) < MaxHandlers
    /\ media_id \in MediaIds
    /\ SessionsWithCode(code) = {}
    /\ handlers' = Append(handlers,
                          [ action |-> "create", user |-> user, media_id |-> media_id,
                            join_code |-> code, t |-> now,
                            existing |-> Len(watch_sessions), committed |-> FALSE ])
    /\ UNCHANGED <<now, watch_sessions, participants, rooms, lastDrift, steps, ev,
                   playback_sessions, files, held, drift_running>>

\* an INSERT into a table without the unique constraint
InsertWatchSessionAnyCode(rows, row) == Append(rows, row)

\* the INSERT of db_session.flush() under join_code's unique constraint: the
\* table afterwards; it is the table as it was when the database refuses the row
InsertWatchSession(rows, row) ==
    IF \E i \in 1..Len(rows) : rows[i].join_code = row.join_code
    THEN rows
    ELSE Append(rows, row)

\* db_session.flush() of request i, the participant row and the commit
CommitCreateWatchSession(i) ==
    /\ i \in 1..Len(handlers)
    /\ handlers[i].action = "create"
    /\ ~handlers[i].committed
    /\ LET h == handlers[i]
           inserted == InsertWatchSession(watch_sessions,
                                          NewWatchSession(h.user, h.media_id, h.join_code, h.t))
           id == Len(inserted)
       IN  IF inserted = watch_sessions
           THEN \* sqlalchemy.exc.IntegrityError leaves the handler
                /\ ev' = Event("create", h.user, 0, NoPosition, ErrorReply("IntegrityError"), {})
                /\ UNCHANGED <<watch_sessions, participants>>
           ELSE /\ watch_sessions' = inserted
                /\ participants' = Append(participants, NewParticipant(id, h.user, h.t))
                /\ ev' = Event("create", h.user, id, NoPosition,
                               [kind |-> "created", join_code |-> h.join_code], {})
    /\ handlers' = [handlers EXCEPT ![i].committed = TRUE]
    /\ UNCHANGED <<now, rooms, lastDrift, steps, playback_sessions, files, held, drift_running>>

CreateRaceNext ==
    \/ \E d \in RaceDeltas : Advance(d)
    \/ \E u \in Users, m \in MediaIds, c \in JoinCodes : BeginCreateWatchSession(u, m, c)
    \/ \E i \in 1..MaxHandlers : CommitCreateWatchSession(i)

CreateRaceSpec == CreateRaceInit /\ [][CreateRaceNext]_vars

-----------------------------------------------------------------------------
(* Join requests running concurrently with each other and with              *)
(* create-watch-session requests: each join looks its participant row up on  *)
(* its own database session and inserts or refreshes it at its commit        *)

JoinOps == {"join", "socket_join"}

\* The server starts on a database in which user 1 has created watch session 1.
JoinRaceInit ==
    /\ now = 0
    /\ watch_sessions = << NewWatchSession(1, 1, "AAAAAA", 0) >>
    /\ participants = << NewParticipant(1, 1, 0) >>
    /\ rooms = {}
    /\ lastDrift = 0
    /\ steps = 0
    /\ ev = Event("init", NoUser, 0, NoPosition, NoReply, {})
    /\ playback_sessions = <<>>
    /\ files = {}
    /\ held = {}
    /\ drift_running = TRUE
    /\ handlers = <<>>

\* join_watch_session or socket_join of an authenticated caller with the code
\* of an active session, up to its commit: the handler has queried the
\* participant row and taken datetime.utcnow() (the callers and codes it turns
\* away are those of JoinWatchSession and SocketJoin)
BeginJoin(op, user, code) ==
    /\ Len(handlers) < MaxHandlers
    /\ SessionsWithCode(code) # {}
    /\ watch_sessions[FirstSessionWithCode(code)].is_active
    /\ LET wsid == FirstSessionWithCode(code) IN
       handlers' = Append(handlers,
                          [ action |-> op, user |-> user, wsid |-> wsid, t |-> now,
                            found |-> ParticipantRows(wsid, user) # {},
                            committed |-> FALSE ])
    /\ UNCHANGED <<now, watch_sessions, participants, rooms, lastDrift, steps, ev,
                   playback_sessions, files, held, drift_running>>

\* db_session.commit() of join i: the INSERT of the row the handler added when
\* its query found none, or the UPDATE of last_seen_at of the row it found;
\* then join_room for a socket join, and the state payload
CommitJoin(i) ==
    /\ i \in 1..Len(handlers)
    /\ handlers[i].action \in JoinOps
    /\ ~handlers[i].committed
    /\ LET h == handlers[i] IN
       /\ participants' =
             IF h.found
             THEN [participants EXCEPT ![FirstParticipant(h.wsid, h.user)].last_seen_at = h.t]
             ELSE Append(participants, NewParticipant(h.wsid, h.user, h.t))
       /\ rooms' = IF h.action = "socket_join" THEN rooms \cup {<<h.user, h.wsid>>} ELSE rooms
       /\ \E p \in StatePayloads(h.wsid, watch_sessions[h.wsid], now) :
             ev' = Event(h.action, h.user, h.wsid, NoPosition, StateReply(p), {})
    /\ handlers' = [handlers EXCEPT ![i].committed = TRUE]
    /\ UNCHANGED <<now, watch_sessions, lastDrift, steps, playback_sessions, files, held,
                   drift_running>>

JoinRaceNext ==
    \/ \E d \in RaceDeltas : Advance(d)
    \/ \E u \in Users, m \in MediaIds, c \in JoinCodes : BeginCreateWatchSession(u, m, c)
    \/ \E i \in 1..MaxHandlers : CommitCreateWatchSession(i)
    \/ \E op \in JoinOps, u \in Users, c \in JoinCodes : BeginJoin(op, u, c)
    \/ \E i \in 1..MaxHandlers : CommitJoin(i)

JoinRaceSpec == JoinRaceInit /\ [][JoinRaceNext]_vars

-----------------------------------------------------------------------------
(* Playback tokens: itsdangerous.URLSafeTimedSerializer as the service uses it *)

PLAYBACK_TOKEN_MAX_AGE_SECONDS == 1

TokenSecret == "PLAYBACK_TOKEN_SECRET"
TokenSalt == "playback-token"

\* hashlib.sha256(path).hexdigest(): distinct paths have distinct digests
Digest(path) == <<"sha256", path>>

\* the signature over payload and timestamp under a key derived from secret and salt
Mac(secret, salt, payload, timestamp) == <<"hmac", secret, salt, payload, timestamp>>

\* int(time.time()): the serializer stamps and compares whole seconds
Timestamp(t) == t \div MicrosPerSecond

\* what a token carries: kind is "dict" for a JSON object, "list" for another
\* JSON value, "undecodable" for bytes that are no compressed JSON
Payload(kind, playback_session_id, path, digest, issued_at) ==
    [ kind |-> kind, playback_session_id |-> playback_session_id, path |-> path,
      digest |-> digest, issued_at |-> issued_at ]

NoPayload == Payload("none", None, None, None, 0)

\* request.args.get('token') when the query has no token
NoToken == [form |-> "none", payload |-> NoPayload, timestamp |-> 0, mac |-> <<>>]
\* ?token=
EmptyToken == [form |-> "empty", payload |-> NoPayload, timestamp |-> 0, mac |-> <<>>]
\* a string that is no serializer output
MalformedToken == [form |-> "malformed", payload |-> NoPayload, timestamp |-> 0, mac |-> <<>>]

\* serializer.dumps(payload) at time t under a secret
Dumps(secret, payload, t) ==
    [ form |-> "signed", payload |-> payload, timestamp |-> Timestamp(t),
      mac |-> Mac(secret, TokenSalt, payload, Timestamp(t)) ]

\* PlaybackService.sign_token
SignToken(playback_session_id, path, t) ==
    Dumps(TokenSecret,
          Payload("dict", <<playback_session_id>>, <<path>>, <<Digest(path)>>, t),
          t)

\* a loads that never expires a token
LoadsForever(token, max_age, t) ==
    IF token.form # "signed"
       \/ token.mac # Mac(TokenSecret, TokenSalt, token.payload, token.timestamp)
    THEN [raised |-> "BadSignature", payload |-> NoPayload]
    ELSE IF token.payload.kind = "undecodable"
    THEN [raised |-> "BadPayload", payload |-> NoPayload]
    ELSE [raised |-> "none", payload |-> token.payload]

\* serializer.loads(token, max_age=max_age): the payload or the exception raised
Loads(token, max_age, t) ==
    IF token.form # "signed"
       \/ token.mac # Mac(TokenSecret, TokenSalt, token.payload, token.timestamp)
    THEN [raised |-> "BadSignature", payload |-> NoPayload]
    ELSE IF Timestamp(t) - token.timestamp > max_age \/ Timestamp(t) - token.timestamp < 0
    THEN [raised |-> "SignatureExpired", payload |-> NoPayload]
    ELSE IF token.payload.kind = "undecodable"
    THEN [raised |-> "BadPayload", payload |-> NoPayload]
    ELSE [raised |-> "none", payload |-> token.payload]

\* a verification that forgets the session id
VerifyTokenAnySession(token, max_age_seconds, expected_playback_session_id, path, t) ==
    LET loaded == Loads(token, max_age_seconds, t)
    IN  IF loaded.raised \in {"BadSignature", "SignatureExpired"} THEN "False"
        ELSE IF loaded.raised # "none" THEN loaded.raised
        ELSE IF loaded.payload.kind # "dict" THEN "AttributeError"
        ELSE IF /\ loaded.payload.path = <<path>>
                /\ loaded.payload.digest = <<Digest(path)>>
        THEN "True"
        ELSE "False"

\* a verification that forgets the path
VerifyTokenAnyPath(token, max_age_seconds, expected_playback_session_id, path, t) ==
    LET loaded == Loads(token, max_age_seconds, t)
    IN  IF loaded.raised \in {"BadSignature", "SignatureExpired"} THEN "False"
        ELSE IF loaded.raised # "none" THEN loaded.raised
        ELSE IF loaded.payload.kind # "dict" THEN "AttributeError"
        ELSE IF loaded.payload.playback_session_id = <<expected_playback_session_id>>
        THEN "True"
        ELSE "False"

\* PlaybackService.verify_token: "True", "False", or the name of the
\* exception that leaves the function
VerifyToken(token, max_age_seconds, expected_playback_session_id, path, t) ==
    LET loaded == Loads(token, max_age_seconds, t)
    IN  IF loaded.raised \in {"BadSignature", "SignatureExpired"} THEN "False"
        ELSE IF loaded.raised # "none" THEN loaded.raised
        ELSE IF loaded.payload.kind # "dict" THEN "AttributeError"
        ELSE IF /\ loaded.payload.playback_session_id = <<expected_playback_session_id>>
                /\ loaded.payload.path = <<path>>
                /\ loaded.payload.digest = <<Digest(path)>>
        THEN "True"
        ELSE "False"

-----------------------------------------------------------------------------
(* Files: a file system is a set of files, a file its path's parts and its lines *)

File(parts, lines) == [parts |-> parts, lines |-> lines]

IsUnder(dir, parts) == Len(dir) <= Len(parts) /\ SubSeq(parts, 1, Len(dir)) = dir

\* Path.exists() and Path.is_file()
IsFile(fs, parts) == \E f \in fs : f.parts = parts

\* Path.read_text().splitlines()
ReadLines(fs, parts) == (CHOOSE f \in fs : f.parts = parts).lines

\* a session directory that is never cleared
RmTreeNothing(fs, dir) == fs

\* shutil.rmtree(dir)
RmTree(fs, dir) == {f \in fs : ~IsUnder(dir, f.parts)}

WriteFiles(fs, new) == {f \in fs : \A g \in new : g.parts # f.parts} \cup new

\* str.rfind(c): 0 when c is not in s
RECURSIVE LastIndexOf(_, _, _)
LastIndexOf(s, c, i) ==
    IF i = 0 THEN 0 ELSE IF s[i] = c THEN i ELSE LastIndexOf(s, c, i - 1)

\* Path.suffix
Suffix(parts) ==
    IF parts = <<>> THEN <<>>
    ELSE LET name == parts[Len(parts)]
             i == LastIndexOf(name, ".", Len(name))
         IN  IF 1 < i /\ i < Len(name) THEN SubSeq(name, i, Len(name)) ELSE <<>>

\* str.strip() of blanks and tabs
RECURSIVE Strip(_)
Strip(s) ==
    IF s = <<>> THEN s
    ELSE IF Head(s) \in {" ", "\t"} THEN Strip(Tail(s))
    ELSE IF s[Len(s)] \in {" ", "\t"} THEN Strip(SubSeq(s, 1, Len(s) - 1))
    ELSE s

\* int(value) of a string of digits
DigitValue(c) == CHOOSE d \in 0..9 : DecimalDigits[d + 1] = c

RECURSIVE ParseInt(_)
ParseInt(s) ==
    IF s = <<>> THEN 0
    ELSE 10 * ParseInt(SubSeq(s, 1, Len(s) - 1)) + DigitValue(s[Len(s)])

\* to_int of _bitrate_to_bandwidth
ToInt(value) ==
    IF EndsWith(value, <<"k">>) THEN ParseInt(SubSeq(value, 1, Len(value) - 1)) * 1000
    ELSE IF EndsWith(value, <<"m">>) THEN ParseInt(SubSeq(value, 1, Len(value) - 1)) * 1000000
    ELSE ParseInt(value)

\* PlaybackService._bitrate_to_bandwidth
BitrateToBandwidth(video_bitrate, audio_bitrate) == ToInt(video_bitrate) + ToInt(audio_bitrate)

INDEX_M3U8 == <<"i", "n", "d", "e", "x", ".", "m", "3", "u", "8">>
SEGMENT_000_TS == <<"s", "e", "g", "m", "e", "n", "t", "_", "0", "0", "0", ".", "t", "s">>
EXTM3U == <<"#", "E", "X", "T", "M", "3", "U">>

\* the lines PlaybackService._write_master_playlist writes
MasterPlaylistLines(profile) ==
    << EXTM3U,
       <<"#", "E", "X", "T", "-", "X", "-", "V", "E", "R", "S", "I", "O", "N", ":", "3">>,
       <<"#", "E", "X", "T", "-", "X", "-", "S", "T", "R", "E", "A", "M", "-", "I", "N", "F", ":", "B", "A", "N", "D", "W", "I", "D", "T", "H", "=">>
           \o Decimal(BitrateToBandwidth(profile.video_bitrate, profile.audio_bitrate))
           \o <<",", "R", "E", "S", "O", "L", "U", "T", "I", "O", "N", "=", "1", "2", "8", "0", "x">> \o Decimal(profile.max_height),
       profile.name \o <<"/">> \o INDEX_M3U8 >>

\* PlaybackService._generate_hls: what a successful ffmpeg run leaves in
\* output_dir, a media playlist and its segment
GenerateHls(output_dir) ==
    { File(Append(output_dir, INDEX_M3U8),
           << EXTM3U,
              <<"#", "E", "X", "T", "I", "N", "F", ":", "6", ".", "0", "0", "0", "0", "0", "0", ",">>,
              SEGMENT_000_TS,
              <<"#", "E", "X", "T", "-", "X", "-", "E", "N", "D", "L", "I", "S", "T">> >>),
      File(Append(output_dir, SEGMENT_000_TS), << <<"m", "p", "e", "g", "t", "s">> >>) }

\* the rows of media_files
media_files ==
    ( 1 :> [ file_path |-> <<"/", "m", "/", "a", ".", "m", "k", "v">>, height |-> <<1080>>,
             container |-> <<"matroska,webm">>, video_codec |-> <<"h264">> ] )
    @@
    ( 2 :> [ file_path |-> <<"/", "m", "/", "p", ".", "m", "3", "u", "8">>, height |-> None,
             container |-> <<"hls">>, video_codec |-> None ] )
    @@
    ( 3 :> [ file_path |-> <<"/", "m", "/", "c", ".", "m", "p", "4">>, height |-> <<720>>,
             container |-> <<"mp4">>, video_codec |-> <<"h264">> ] )
    @@
    \* a playlist that has been removed from the library since it was scanned
    ( 4 :> [ file_path |-> <<"/", "m", "/", "q", ".", "m", "3", "u", "8">>, height |-> None,
             container |-> <<"hls">>, video_codec |-> None ] )

SEG0_TS == <<" ", "s", "e", "g", "0", ".", "t", "s">>
OUTSIDE_2 == <<".", ".", "/", "2", "/", "m", "a", "s", "t", "e", "r", ".", "m", "3", "u", "8">>
TRAVERSAL_10 == <<".", ".", "/", "1", "0", "/", "m", "a", "s", "t", "e", "r", ".", "m", "3", "u", "8">>

\* the media library on disk: the playlists a direct-play session copies
LibraryFiles ==
    { File(<< <<"m">>, <<"p", ".", "m", "3", "u", "8">> >>,
           << EXTM3U, TRAVERSAL_10, OUTSIDE_2, SEG0_TS, <<"h", "t", "t", "p", "s", ":", "/", "/", "c", "/", "x", ".", "t", "s">> >>) }

\* Path(file_path): the parts of an absolute path
AbsoluteParts(path) == PathParts(Split(path), 1)

\* PlaybackService.prepare_session: the files afterwards, whether it returned or
\* what it raised, and whether it ran ffmpeg
PrepareSession(fs, media_file, playback_session_id, ffmpeg_ok) ==
    LET mode == ChooseMode(media_file)
        profile == BASELINE_720P
        session_dir == Append(OutputRootParts, Decimal(playback_session_id))
        cleared == RmTree(fs, session_dir)
        source == AbsoluteParts(media_file.file_path)
        profile_dir == Append(session_dir, profile.name)
    IN  IF mode = "direct-play" /\ EndsWith(media_file.file_path, M3U8)
        THEN IF IsFile(LibraryFiles, source)
             THEN [ ok |-> TRUE, mode |-> mode, profile |-> profile.name,
                    raised |-> "none", ffmpeg |-> FALSE,
                    files |-> WriteFiles(cleared,
                                 {File(Append(session_dir, MASTER_M3U8),
                                       ReadLines(LibraryFiles, source))}) ]
             ELSE [ ok |-> FALSE, mode |-> mode, profile |-> profile.name,
                    raised |-> "FileNotFoundError", ffmpeg |-> FALSE, files |-> cleared ]
        ELSE IF ffmpeg_ok
             THEN [ ok |-> TRUE, mode |-> mode, profile |-> profile.name,
                    raised |-> "none", ffmpeg |-> TRUE,
                    files |-> WriteFiles(cleared,
                                 GenerateHls(profile_dir)
                                 \cup {File(Append(session_dir, MASTER_M3U8),
                                            MasterPlaylistLines(profile))}) ]
             ELSE [ ok |-> FALSE, mode |-> mode, profile |-> profile.name,
                    raised |-> "RuntimeError", ffmpeg |-> TRUE, files |-> cleared ]

\* a line of a served playlist: the line as it was, or the URL url_for builds
\* from a session id, an asset path and a token
TextLine(line) ==
    [kind |-> "text", text |-> line, playback_session_id |-> 0, asset_path |-> <<>>,
     token |-> NoToken]
UrlLine(playback_session_id, asset_path, token) ==
    [kind |-> "url", text |-> <<>>, playback_session_id |-> playback_session_id,
     asset_path |-> asset_path, token |-> token]

\* a playlist that signs a URL for every line, comments and blanks included
RewritePlaylistBlind(playback_session_id, lines, playlist_path, t) ==
    [i \in 1..Len(lines) |->
        UrlLine(playback_session_id, Strip(lines[i]),
                SignToken(playback_session_id, Strip(lines[i]), t))]

\* a rewriter that resolves every reference against the session's root
RewritePlaylistFlat(playback_session_id, lines, playlist_path, t) ==
    [i \in 1..Len(lines) |->
        IF \/ Strip(lines[i]) = <<>>
           \/ StartsWith(Strip(lines[i]), <<"#">>)
           \/ StartsWith(Strip(lines[i]), <<"h", "t", "t", "p">>)
        THEN TextLine(lines[i])
        ELSE UrlLine(playback_session_id, Strip(lines[i]),
                     SignToken(playback_session_id, Strip(lines[i]), t))]

\* _rewrite_playlist
RewritePlaylist(playback_session_id, lines, playlist_path, t) ==
    LET slash == LastIndexOf(playlist_path, "/", Len(playlist_path))
        base_dir == IF slash = 0 THEN <<>> ELSE SubSeq(playlist_path, 1, slash - 1)
        Rewritten(line) ==
            LET stripped == Strip(line)
                relative == IF base_dir # <<>> THEN base_dir \o <<"/">> \o stripped
                            ELSE stripped
            IN  IF stripped = <<>> \/ StartsWith(stripped, <<"#">>) THEN TextLine(line)
                ELSE IF \/ StartsWith(stripped, <<"h", "t", "t", "p", ":", "/", "/">>)
                        \/ StartsWith(stripped, <<"h", "t", "t", "p", "s", ":", "/", "/">>)
                THEN TextLine(line)
                ELSE UrlLine(playback_session_id, relative,
                             SignToken(playback_session_id, relative, t))
    IN  [i \in 1..Len(lines) |-> Rewritten(lines[i])]

\* str.splitlines() over the line ends \n, \r\n and \r: a line end closes a
\* line, and what follows the last line end is a line only if it is not empty
RECURSIVE SplitLinesFrom(_, _, _)
SplitLinesFrom(content, i, line) ==
    IF i > Len(content) THEN (IF line = <<>> THEN <<>> ELSE <<line>>)
    ELSE IF content[i] = "\n" THEN <<line>> \o SplitLinesFrom(content, i + 1, <<>>)
    ELSE IF content[i] = "\r"
    THEN <<line>> \o SplitLinesFrom(content,
                                    IF i < Len(content) /\ content[i + 1] = "\n"
                                    THEN i + 2 ELSE i + 1,
                                    <<>>)
    ELSE SplitLinesFrom(content, i + 1, Append(line, content[i]))

SplitLines(content) == SplitLinesFrom(content, 1, <<>>)

\* the text of a response: characters, and URLs that url_for built
Char(c) == [kind |-> "char", c |-> c]
Chars(s) == [i \in 1..Len(s) |-> Char(s[i])]
LineItems(line) == IF line.kind = "text" THEN Chars(line.text) ELSE <<line>>

\* '\n'.join(rewritten_lines)
RECURSIVE JoinLines(_)
JoinLines(lines) ==
    IF lines = <<>> THEN <<>>
    ELSE IF Len(lines) = 1 THEN LineItems(lines[1])
    ELSE LineItems(Head(lines)) \o <<Char("\n")>> \o JoinLines(Tail(lines))

\* _rewrite_playlist, from the text read to the text returned
RewritePlaylistText(playback_session_id, content, playlist_path, t) ==
    JoinLines(RewritePlaylist(playback_session_id, SplitLines(content), playlist_path, t))
        \o <<Char("\n")>>

TokensOf(body) == {body[i].token : i \in {j \in 1..Len(body) : body[j].kind = "url"}}

-----------------------------------------------------------------------------
(* Playback sessions and asset delivery: src/app.py *)

PriorPlayback == 10
MaxPlayback == PriorPlayback + 1
MaxRequests == 2

\* what a handler of the playback routes did: its inputs, the status and body
\* of its response, the service calls it made in order
Response(op, user, playback_session_id, asset_path, token, max_age, status, body, calls, result) ==
    [ op |-> op, user |-> user, playback_session_id |-> playback_session_id,
      asset_path |-> asset_path, token |-> token, max_age |-> max_age, at |-> now,
      status |-> status, body |-> body, calls |-> calls, result |-> result ]

NewPlaybackSession(media_id, user, mode, t) ==
    [ media_file_id |-> media_id, user_session_id |-> Decimal(user), started_at |-> t,
      playback_mode |-> mode, chosen_profile |-> BASELINE_720P.name ]

RECURSIVE PriorFiles(_)
PriorFiles(n) ==
    IF n = 0 THEN {}
    ELSE PrepareSession(PriorFiles(n - 1), media_files[IF n = 1 THEN 2 ELSE 1], n, TRUE).files

\* The database and the output directory outlive the process: user 1 has
\* opened the library playlist as session 1 and has just been handed its
\* master URL, on the second or within it; the sessions after it transcoded
\* media 1.
AssetInit ==
    /\ now \in {0, 600000}
    /\ watch_sessions = <<>>
    /\ participants = <<>>
    /\ rooms = {}
    /\ lastDrift = 0
    /\ steps = 0
    /\ playback_sessions =
           [n \in 1..PriorPlayback |->
               IF n = 1 THEN NewPlaybackSession(2, 1, "direct-play", now)
               ELSE NewPlaybackSession(1, 1, "transcode", now)]
    /\ files = PriorFiles(PriorPlayback)
    /\ held = {SignToken(1, MASTER_M3U8, now)}
    /\ drift_running = TRUE
    /\ handlers = <<>>
    /\ ev = Response("init", NoUser, 0, <<>>, NoToken, 0, 0, <<>>, <<>>, "")

\* a failed request whose row stays in the table
DeletedNothing(rows, id) == rows

\* db_session.delete(playback_session); db_session.commit(): the row just added goes
Deleted(rows, id) == SubSeq(rows, 1, id - 1) \o SubSeq(rows, id + 1, Len(rows))

\* POST /api/playback/sessions
CreatePlaybackSession(user, media_id, ffmpeg_ok) ==
    /\ steps < MaxRequests
    /\ Len(playback_sessions) < MaxPlayback
    /\ steps' = steps + 1
    /\ IF user = NoUser
       THEN /\ ev' = Response("create_playback_session", user, 0, <<>>, NoToken, 0,
                              401, <<>>, <<>>, "authentication required")
            /\ UNCHANGED <<playback_sessions, files, held>>
       ELSE IF media_id = 0
       THEN /\ ev' = Response("create_playback_session", user, 0, <<>>, NoToken, 0,
                              400, <<>>, <<>>, "media_id is required")
            /\ UNCHANGED <<playback_sessions, files, held>>
       ELSE IF media_id \notin DOMAIN media_files
       THEN /\ ev' = Response("create_playback_session", user, 0, <<>>, NoToken, 0,
                              404, <<>>, <<>>, "media item not found")
            /\ UNCHANGED <<playback_sessions, files, held>>
       ELSE LET media == media_files[media_id]
                mode == ChooseMode(media)
                id == Len(playback_sessions) + 1
                prepared == PrepareSession(files, media, id, ffmpeg_ok)
                token == SignToken(id, MASTER_M3U8, now)
                added == Append(playback_sessions, NewPlaybackSession(media_id, user, mode, now))
            IN  IF ~prepared.ok
                THEN /\ playback_sessions' = Deleted(added, id)
                     /\ files' = prepared.files
                     /\ held' = held
                     /\ ev' = Response("create_playback_session", user, id, <<>>, NoToken, 0,
                                       500, <<>>, <<"choose_mode", "prepare_session">>,
                                       "Unable to prepare playback artifacts")
                ELSE /\ playback_sessions' = added
                     /\ files' = prepared.files
                     /\ held' = held \cup {token}
                     /\ ev' = Response("create_playback_session", user, id, MASTER_M3U8, token,
                                       PLAYBACK_TOKEN_MAX_AGE_SECONDS, 200,
                                       << UrlLine(id, MASTER_M3U8, token) >>,
                                       <<"choose_mode", "prepare_session", "sign_token">>,
                                       prepared.mode)
    /\ UNCHANGED <<now, watch_sessions, participants, rooms, lastDrift, drift_running, handlers>>

\* GET /api/playback/sessions/<id>/asset/<path>?token=...
ServePlaybackAsset(playback_session_id, asset_path, token) ==
    /\ steps < MaxRequests
    /\ steps' = steps + 1
    /\ IF token.form \in {"none", "empty"}
       THEN /\ ev' = Response("serve_playback_asset", NoUser, playback_session_id, asset_path,
                              token, PLAYBACK_TOKEN_MAX_AGE_SECONDS, 401, <<>>, <<>>, "")
            /\ held' = held
       ELSE LET valid == VerifyToken(token, PLAYBACK_TOKEN_MAX_AGE_SECONDS,
                                     playback_session_id, asset_path, now)
                asset == ResolveOutputPath(playback_session_id, asset_path)
            IN  IF valid \notin {"True", "False"}
                THEN /\ ev' = Response("serve_playback_asset", NoUser, playback_session_id,
                                       asset_path, token, PLAYBACK_TOKEN_MAX_AGE_SECONDS,
                                       500, <<>>, <<"verify_token">>, valid)
                     /\ held' = held
                ELSE IF valid = "False"
                THEN /\ ev' = Response("serve_playback_asset", NoUser, playback_session_id,
                                       asset_path, token, PLAYBACK_TOKEN_MAX_AGE_SECONDS,
                                       403, <<>>, <<"verify_token">>, valid)
                     /\ held' = held
                ELSE IF asset = None \/ ~IsFile(files, asset[1])
                THEN /\ ev' = Response("serve_playback_asset", NoUser, playback_session_id,
                                       asset_path, token, PLAYBACK_TOKEN_MAX_AGE_SECONDS,
                                       404, <<>>, <<"verify_token", "resolve_output_path">>,
                                       valid)
                     /\ held' = held
                ELSE IF Suffix(asset[1]) = M3U8
                THEN LET rewritten == RewritePlaylist(playback_session_id,
                                                      ReadLines(files, asset[1]),
                                                      asset_path, now)
                     IN  /\ ev' = Response("serve_playback_asset", NoUser,
                                           playback_session_id, asset_path, token,
                                           PLAYBACK_TOKEN_MAX_AGE_SECONDS, 200, rewritten,
                                           <<"verify_token", "resolve_output_path",
                                             "read_text", "sign_token">>,
                                           PathString(asset[1]))
                         /\ held' = held \cup TokensOf(rewritten)
                ELSE /\ ev' = Response("serve_playback_asset", NoUser, playback_session_id,
                                       asset_path, token, PLAYBACK_TOKEN_MAX_AGE_SECONDS,
                                       200,
                                       [i \in 1..Len(ReadLines(files, asset[1])) |->
                                           TextLine(ReadLines(files, asset[1])[i])],
                                       <<"verify_token", "resolve_output_path", "send_file">>,
                                       PathString(asset[1]))
                     /\ held' = held
    /\ UNCHANGED <<now, watch_sessions, participants, rooms, lastDrift, drift_running, handlers, playback_sessions, files>>

\* a call of playback_service.verify_token
VerifyTokenCall(token, max_age_seconds, expected_playback_session_id, path) ==
    /\ steps < MaxRequests
    /\ steps' = steps + 1
    /\ ev' = Response("verify_token", NoUser, expected_playback_session_id, path, token,
                      max_age_seconds, 0, <<>>, <<>>,
                      VerifyToken(token, max_age_seconds, expected_playback_session_id,
                                  path, now))
    /\ UNCHANGED <<now, watch_sessions, participants, rooms, lastDrift, drift_running, handlers,
                   playback_sessions, files, held>>

\* the session ids and asset paths requests name
RequestIds == {1, PriorPlayback, MaxPlayback}
HLS_INDEX == HLS_720P \o <<"/">> \o INDEX_M3U8
RequestPaths(tokens) ==
    {MASTER_M3U8, HLS_INDEX, OUTSIDE_2} \cup {t.payload.path[1] : t \in tokens}

\* a held token whose payload was rewritten with the signature left as it was
Retargeted(token, playback_session_id, path) ==
    [token EXCEPT !.payload = Payload("dict", <<playback_session_id>>, <<path>>,
                                      <<Digest(path)>>, token.payload.issued_at)]

\* the tokens someone without the secret can present
ForgedTokens(tokens, t) ==
    ( { MalformedToken }
      \cup { Retargeted(h, PriorPlayback, MASTER_M3U8) : h \in tokens }
      \cup { Dumps("guess", h.payload, t) : h \in tokens } )
    \ tokens

\* tokens serializer.dumps gives for payloads sign_token never builds
UnexpectedTokens(t) ==
    { Dumps(TokenSecret, Payload("list", None, None, None, t), t),
      Dumps(TokenSecret, Payload("undecodable", None, None, None, t), t),
      Dumps(TokenSecret, Payload("dict", None, None, None, t), t),
      Dumps(TokenSecret, Payload("dict", <<1>>, <<MASTER_M3U8>>, <<Digest(HLS_INDEX)>>, t), t) }

TokenDeltas == {600000, 1000000, 2000000}
MaxAges == {0, PLAYBACK_TOKEN_MAX_AGE_SECONDS}

\* the session id and path a verification is asked about
Expectations == {<<1, MASTER_M3U8>>, <<PriorPlayback, MASTER_M3U8>>, <<1, TRAVERSAL_10>>}

AssetNext ==
    \/ \E d \in TokenDeltas : steps < MaxRequests /\ Advance(d)
    \/ \E u \in {NoUser, 1}, m \in {0, 99} \cup DOMAIN media_files, ok \in BOOLEAN :
          CreatePlaybackSession(u, m, ok)
    \/ \E s \in RequestIds, p \in RequestPaths(held),
          t \in {NoToken, EmptyToken} \cup held \cup ForgedTokens(held, now) :
          ServePlaybackAsset(s, p, t)
    \/ \E t \in {EmptyToken} \cup held \cup ForgedTokens(held, now) \cup UnexpectedTokens(now),
          a \in MaxAges, e \in Expectations :
          VerifyTokenCall(t, a, e[1], e[2])

AssetSpec == AssetInit /\ [][AssetNext]_vars

-----------------------------------------------------------------------------
(* The service's pure functions, applied to inputs of every kind *)

Probe(op, media_file, playback_session_id, relative_path, result) ==
    [ op |-> op, media_file |-> media_file, playback_session_id |-> playback_session_id,
      relative_path |-> relative_path, result |-> result ]

NoMedia == [file_path |-> <<>>, height |-> None, container |-> None, video_codec |-> None]

ProbeInit ==
    /\ now = 0
    /\ watch_sessions = <<>>
    /\ participants = <<>>
    /\ rooms = {}
    /\ lastDrift = 0
    /\ steps = 0
    /\ playback_sessions = <<>>
    /\ files = {}
    /\ held = {}
    /\ drift_running = TRUE
    /\ handlers = <<>>
    /\ ev = Probe("init", NoMedia, 0, <<>>, "")

SourcePaths ==
    { <<"/", "m", "/", "p", ".", "m", "3", "u", "8">>, <<"/", "m", "/", "a", ".", "m", "k", "v">>, <<"/", "m", "/", "c", ".", "m", "p", "4">>, <<"/", "m", "/", "m", "3", "u", "8">> }
Heights == {None, <<0>>, <<480>>, <<720>>, <<721>>, <<1080>>}
Containers == {None, <<"mp4">>, <<"mov">>, <<"matroska,webm">>, <<"mov,mp4,m4a,3gp,3g2,mj2">>}
VideoCodecs == {None, <<"h264">>, <<"hevc">>, <<"vp9">>}

\* a call of playback_service.choose_mode
ChooseModeCall(media_file) ==
    /\ ev' = Probe("choose_mode", media_file, 0, <<>>, ChooseMode(media_file))
    /\ UNCHANGED <<now, watch_sessions, participants, rooms, lastDrift, drift_running, handlers, steps,
                   playback_sessions, files, held>>

ResolveIds == {1, 2, 10, 12}
RelativePaths ==
    { MASTER_M3U8, HLS_INDEX, TRAVERSAL_10,
      <<".", ".", "/", "2", "/", "m", "a", "s", "t", "e", "r", ".", "m", "3", "u", "8">>,
      <<".", ".", "/", "1", "/", "m", "a", "s", "t", "e", "r", ".", "m", "3", "u", "8">>,
      <<".", ".", "/", ".", ".", "/", "e", "t", "c", "/", "p", "a", "s", "s", "w", "d">>,
      <<"/", "e", "t", "c", "/", "p", "a", "s", "s", "w", "d">>,
      <<"h", "l", "s", "-", "7", "2", "0", "p", "/", ".", ".", "/", "m", "a", "s", "t", "e", "r", ".", "m", "3", "u", "8">>,
      <<"h", "l", "s", "-", "7", "2", "0", "p", "/", ".", ".", "/", ".", ".", "/", "1", "2", "/", "m", "a", "s", "t", "e", "r", ".", "m", "3", "u", "8">>,
      <<"/", "/", "x", "/", ".", "/", "y">>,
      <<".", ".">>,
      <<".">>,
      <<>> }

\* a call of playback_service.resolve_output_path
ResolveOutputPathCall(playback_session_id, relative_path) ==
    /\ ev' = Probe("resolve_output_path", NoMedia, playback_session_id, relative_path,
                   ResolveOutputPath(playback_session_id, relative_path))
    /\ UNCHANGED <<now, watch_sessions, participants, rooms, lastDrift, drift_running, handlers, steps,
                   playback_sessions, files, held>>

ProbeNext ==
    \/ \E f \in SourcePaths, h \in Heights, c \in Containers, v \in VideoCodecs :
          ChooseModeCall([file_path |-> f, height |-> h, container |-> c, video_codec |-> v])
    \/ \E s \in ResolveIds, p \in RelativePaths : ResolveOutputPathCall(s, p)

ProbeSpec == ProbeInit /\ [][ProbeNext]_vars

-----------------------------------------------------------------------------
(* The artifact preparer, called on its own *)

\* The output root is empty, or holds the directories of session 1 (a copy of
\* the library playlist) and session 2 (a transcode of media 1).
PrepareInit ==
    /\ now = 0
    /\ watch_sessions = <<>>
    /\ participants = <<>>
    /\ rooms = {}
    /\ lastDrift = 0
    /\ steps = 0
    /\ playback_sessions = <<>>
    /\ files \in {{}, PriorFiles(2)}
    /\ held = {}
    /\ drift_running = TRUE
    /\ handlers = <<>>
    /\ ev = Probe("init", NoMedia, 0, <<>>, "")

\* a call of playback_service.prepare_session; a behaviour makes two calls
PrepareSessionCall(media_id, playback_session_id, ffmpeg_ok) ==
    /\ steps < 2
    /\ steps' = steps + 1
    /\ LET prepared == PrepareSession(files, media_files[media_id], playback_session_id,
                                      ffmpeg_ok)
       IN  /\ files' = prepared.files
           /\ ev' = Probe("prepare_session", media_files[media_id], playback_session_id, <<>>,
                          [ ok |-> prepared.ok, mode |-> prepared.mode,
                            profile |-> prepared.profile, raised |-> prepared.raised,
                            ffmpeg |-> prepared.ffmpeg ])
    /\ UNCHANGED <<now, watch_sessions, participants, rooms, lastDrift, drift_running, handlers,
                   playback_sessions, held>>

PrepareNext ==
    \E m \in DOMAIN media_files, s \in {1, 2, 3}, ok \in BOOLEAN : PrepareSessionCall(m, s, ok)

PrepareSpec == PrepareInit /\ [][PrepareNext]_vars

-----------------------------------------------------------------------------
(* The playlist rewriter, applied to playlists as texts *)

MaxLines == 2

HTTPS_X_TS == <<"h", "t", "t", "p", "s", ":", "/", "/", "c", "/", "x", ".", "t", "s">>
HTTP_Y_TS == <<"h", "t", "t", "p", ":", "/", "/", "c", "/", "y", ".", "t", "s">>
PlaylistLineTexts == {<<>>, <<" ">>, EXTM3U, SEG0_TS, HTTPS_X_TS, HTTP_Y_TS}
LineEnds == {<<"\n">>, <<"\r", "\n">>}

\* the texts of at most n lines, each closed by a line end
RECURSIVE Terminated(_)
Terminated(n) ==
    IF n = 0 THEN {<<>>}
    ELSE {<<>>} \cup { line \o end \o rest :
                          line \in PlaylistLineTexts, end \in LineEnds, rest \in Terminated(n - 1) }

\* the playlists of at most MaxLines lines, the last with or without a line end
Contents ==
    Terminated(MaxLines)
    \cup { head \o last : head \in Terminated(MaxLines - 1), last \in PlaylistLineTexts }

\* a call of _rewrite_playlist; the function reads nothing but its arguments,
\* so a behaviour makes one call
RewritePlaylistCall(playback_session_id, content, playlist_path) ==
    /\ steps = 0
    /\ steps' = steps + 1
    /\ ev' = [ op |-> "rewrite_playlist", media_file |-> NoMedia,
               playback_session_id |-> playback_session_id,
               relative_path |-> playlist_path, content |-> content,
               result |-> RewritePlaylistText(playback_session_id, content, playlist_path, now) ]
    /\ UNCHANGED <<now, watch_sessions, participants, rooms, lastDrift, drift_running, handlers,
                   playback_sessions, files, held>>

RewriteNext ==
    \E c \in Contents, p \in {MASTER_M3U8, HLS_INDEX} : RewritePlaylistCall(1, c, p)

\* the rewriter is called on the second or within it
RewriteInit ==
    /\ now \in {0, 600000}
    /\ watch_sessions = <<>>
    /\ participants = <<>>
    /\ rooms = {}
    /\ lastDrift = 0
    /\ steps = 0
    /\ playback_sessions = <<>>
    /\ files = {}
    /\ held = {}
    /\ drift_running = TRUE
    /\ handlers = <<>>
    /\ ev = Probe("init", NoMedia, 0, <<>>, "")

RewriteSpec == RewriteInit /\ [][RewriteNext]_vars

-----------------------------------------------------------------------------
(* Properties of the watch-session state machine, checked under Spec *)

\* the state_sync payloads the last operation sent: to its caller, to rooms
SentPayloads ==
    (IF ev.reply.kind = "state_sync" THEN {ev.reply.payload} ELSE {})
        \cup { m.payload : m \in ev.bcast }

\* p is a whole number of milliseconds no further than half a millisecond from x
NearestMilli(p, x) == p % 1000 = 0 /\ 2 * Abs(p - x) <= 1000

\* C1 as stated: a read at time T+D of the checkpoint (P, T) returns exactly
\* P+D when the session is playing and exactly P when it is paused.
C1_ExactRead ==
    \A p \in SentPayloads :
        LET w == watch_sessions[p.watch_session_id]
            D == p.server_time - w.last_state_updated_at
        IN  D >= 0 =>
              p.position_seconds =
                 IF w.is_playing THEN w.current_position_seconds + D
                                 ELSE w.current_position_seconds

\* C1 as amended: a read at time T+D (D >= 0) of the checkpoint (P, T) returns
\* P+D rounded to the millisecond when the session is playing and P rounded to
\* the millisecond when it is paused, and reports the session's play flag.
C1_RoundedRead ==
    \A p \in SentPayloads :
        LET w == watch_sessions[p.watch_session_id]
            D == p.server_time - w.last_state_updated_at
        IN  D >= 0 =>
              /\ p.is_playing = w.is_playing
              /\ w.is_playing =>
                    NearestMilli(p.position_seconds, w.current_position_seconds + D)
              /\ ~w.is_playing =>
                    NearestMilli(p.position_seconds, w.current_position_seconds)

\* a joining caller was sent the state of a playing session read two seconds
\* or more after its checkpoint
C1_Witness ==
    /\ ev.op = "join"
    /\ ev.reply.kind = "state_sync"
    /\ LET w == watch_sessions[ev.wsid] IN
          /\ w.is_playing
          /\ ev.reply.payload.server_time - w.last_state_updated_at >= 2000000
          /\ ev.reply.payload.position_seconds > w.current_position_seconds

\* the step is a state_sync carrying a position, sent by a joined participant
SyncStep ==
    /\ steps' = steps + 1
    /\ now' = now
    /\ ev'.op = "state_sync"
    /\ ev'.arg # NoPosition
    /\ ev'.user # NoUser
    /\ ev'.wsid \in 1..Len(watch_sessions)
    /\ ParticipantRows(ev'.wsid, ev'.user) # {}

\* the positions a read of session w at time t can report
ReportedPositions(w, t) ==
    LET x  == IF w.is_playing
              THEN w.current_position_seconds + (t - w.last_state_updated_at)
              ELSE w.current_position_seconds
        lo == (x \div 1000) * 1000
    IN  { p \in {lo, lo + 1000} : NearestMilli(p, x) }

OutsiderStep ==
    /\ steps' = steps + 1
    /\ now' = now
    /\ ev'.op \in Actions
    /\ ev'.wsid # 0
    /\ ParticipantRows(ev'.wsid, ev'.user) = {}

\* C10: a play, pause, seek or state_sync of a caller without a join record for
\* the target session is answered with an authorization error, is not
\* broadcast, and changes neither a watch session nor a participant record.
C10_OutsiderRejected ==
    [][ OutsiderStep =>
          /\ ev'.reply.kind = "error"
          /\ ev'.reply.error \in { "authentication required",
                                   "join session before controlling playback" }
          /\ ev'.bcast = {}
          /\ watch_sessions' = watch_sessions
          /\ participants' = participants
      ]_vars

\* a logged-in user who never joined an existing session sent it a command and
\* got the error
C10_Witness ==
    /\ ev.op \in Actions
    /\ ev.user \in Users
    /\ ev.wsid \in 1..Len(watch_sessions)
    /\ ParticipantRows(ev.wsid, ev.user) = {}
    /\ ev.reply = ErrorReply("join session before controlling playback")

-----------------------------------------------------------------------------
(* Properties of the playback tokens and asset delivery, checked under AssetSpec *)

\* the verification asked about the very session id and path a token was issued for
IssuedTokenVerified ==
    /\ ev.op = "verify_token"
    /\ ev.token \in held
    /\ ev.token.payload.playback_session_id = <<ev.playback_session_id>>
    /\ ev.token.payload.path = <<ev.asset_path>>

\* the time between sign_token and the verification, in microseconds
Elapsed == ev.at - ev.token.payload.issued_at

\* the whole seconds between the second of issuance and the second of verification
WholeSecondAge == (ev.at \div MicrosPerSecond) - (ev.token.payload.issued_at \div MicrosPerSecond)

\* C2 (as stated): verify_token(sign_token(id, path), ttl, id, path) is true
\* while the elapsed time since issuance is at most ttl and false at every
\* time at which the elapsed time exceeds ttl.
C2_ExactExpiry ==
    IssuedTokenVerified =>
        (ev.result = "True" <=> Elapsed <= ev.max_age * MicrosPerSecond)

\* C2 (amended): verify_token(sign_token(id, path), ttl, id, path) is true
\* exactly while the whole-second age of the token, the second of the check
\* minus the second of issuance, is at most ttl: it is true whenever the
\* elapsed time is at most ttl, false whenever the elapsed time is ttl + 1
\* seconds or more, and between the two it depends on the fraction of the
\* second at which the token was issued.
C2_WholeSecondExpiry ==
    IssuedTokenVerified =>
        /\ ev.result \in {"True", "False"}
        /\ ev.result = "True" <=> WholeSecondAge <= ev.max_age
        /\ Elapsed <= ev.max_age * MicrosPerSecond => ev.result = "True"
        /\ Elapsed >= (ev.max_age + 1) * MicrosPerSecond => ev.result = "False"

\* an issued token was checked after its ttl had run out, and refused
C2_Witness ==
    /\ IssuedTokenVerified
    /\ Elapsed >= (ev.max_age + 1) * MicrosPerSecond
    /\ ev.result = "False"

ValidSignature(token) ==
    /\ token.form = "signed"
    /\ token.mac = <<"hmac", TokenSecret, TokenSalt, token.payload, token.timestamp>>

\* the token's age as the serializer measures it, against max_age at time t
WithinMaxAge(token, max_age, t) ==
    /\ (t \div MicrosPerSecond) - token.timestamp <= max_age
    /\ (t \div MicrosPerSecond) - token.timestamp >= 0

\* the token is a signed, unexpired object naming this session id and path
\* with the digest of the path
Authentic(token, max_age, playback_session_id, path, t) ==
    /\ ValidSignature(token)
    /\ WithinMaxAge(token, max_age, t)
    /\ token.payload.kind = "dict"
    /\ token.payload.playback_session_id = <<playback_session_id>>
    /\ token.payload.path = <<path>>
    /\ token.payload.digest = << <<"sha256", path>> >>

\* C3: verify_token accepts a token only if its signature is valid, its age
\* (as the serializer measures it) is within max_age, and its session id, its
\* path and its digest are those of the expected session id and path; a token
\* issued for another session id or another path is rejected, and so is every
\* token whose signature does not fit its contents.
C3_TokenBinding ==
    ev.op = "verify_token" =>
        /\ ev.result = "True" =>
               Authentic(ev.token, ev.max_age, ev.playback_session_id, ev.asset_path, ev.at)
        /\ ( /\ ev.token \in held
             /\ \/ ev.token.payload.playback_session_id # <<ev.playback_session_id>>
                \/ ev.token.payload.path # <<ev.asset_path>> )
           => ev.result = "False"
        /\ ~ValidSignature(ev.token) => ev.result = "False"

\* a fresh issued token was presented for a session it was not issued for, and refused
C3_Witness ==
    /\ ev.op = "verify_token"
    /\ ev.token \in held
    /\ WithinMaxAge(ev.token, ev.max_age, ev.at)
    /\ ev.token.payload.playback_session_id # <<ev.playback_session_id>>
    /\ ev.token.payload.path = <<ev.asset_path>>
    /\ ev.result = "False"

\* C4: verify_token returns a boolean for every token, a validly signed token
\* with an unexpected payload included, and never raises.
C4_FailsClosed ==
    ev.op = "verify_token" => ev.result \in {"True", "False"}

\* C6: an asset is served only to a request whose token is authentic for
\* exactly the requested session id and asset path within the configured max
\* age, and the handler resolves the path and reads a file only after
\* verify_token has accepted the token.
C6_VerifiedBeforeServed ==
    ev.op = "serve_playback_asset" =>
        /\ ev.status = 200 =>
               Authentic(ev.token, PLAYBACK_TOKEN_MAX_AGE_SECONDS,
                         ev.playback_session_id, ev.asset_path, ev.at)
        /\ ev.status # 200 => ev.body = <<>>
        /\ \A i \in 1..Len(ev.calls) :
               ev.calls[i] # "verify_token" =>
                   /\ i > 1
                   /\ ev.calls[1] = "verify_token"
                   /\ Authentic(ev.token, PLAYBACK_TOKEN_MAX_AGE_SECONDS,
                                ev.playback_session_id, ev.asset_path, ev.at)

\* an asset was served: verified, then resolved, then read
C6_Witness ==
    /\ ev.op = "serve_playback_asset"
    /\ ev.status = 200
    /\ ev.body # <<>>
    /\ Len(ev.calls) >= 3
    /\ ev.calls[1] = "verify_token"
    /\ ev.calls[2] = "resolve_output_path"

\* C7: a fetch without a token is unauthorized, a fetch whose token fails
\* verification is refused as unauthorized or forbidden, and a fetch whose
\* path leaves the session directory or names no file is not found, with no
\* content.
C7_FetchOutcomes ==
    ev.op = "serve_playback_asset" =>
        LET missing == ev.token.form \in {"none", "empty"}
            authentic == Authentic(ev.token, PLAYBACK_TOKEN_MAX_AGE_SECONDS,
                                   ev.playback_session_id, ev.asset_path, ev.at)
            base == BaseParts(ev.playback_session_id)
            candidate == CandidateParts(ev.playback_session_id, ev.asset_path)
        IN  /\ missing => ev.status = 401
            /\ (~missing /\ ~authentic) => ev.status \in {401, 403}
            /\ (authentic /\ (~IsUnder(base, candidate) \/ ~IsFile(files, candidate)))
               => (ev.status = 404 /\ ev.body = <<>>)

-----------------------------------------------------------------------------
(* Properties of the pure functions, checked under ProbeSpec *)

\* C5: resolve_output_path returns none for every path that resolves outside
\* the session's directory, a sibling directory whose name starts with the
\* session's id included, and the resolved path for every path strictly inside.
C5_Containment ==
    ev.op = "resolve_output_path" =>
        LET base == BaseParts(ev.playback_session_id)
            candidate == CandidateParts(ev.playback_session_id, ev.relative_path)
        IN  /\ ~IsUnder(base, candidate) => ev.result = None
            /\ (IsUnder(base, candidate) /\ candidate # base) => ev.result = <<candidate>>

\* the container and the codec are among those played directly
Accepted(media_file) ==
    /\ media_file.container \in {<<"mp4">>, <<"mov">>}
    /\ media_file.video_codec \in {<<"h264">>, <<"hevc">>}

\* C8 (as stated): choose_mode returns direct-play for every .m3u8 source; for
\* every other source it returns direct-play exactly when the height is at or
\* below 720 and container and codec are accepted, and transcode otherwise,
\* unknown height included.
C8_AnyHeightAtMost720 ==
    ev.op = "choose_mode" =>
        LET m == ev.media_file
        IN  ev.result =
                IF \/ EndsWith(m.file_path, M3U8)
                   \/ (m.height # None /\ m.height[1] <= 720 /\ Accepted(m))
                THEN "direct-play" ELSE "transcode"

\* C8 (amended): choose_mode returns direct-play for every .m3u8 source; for
\* every other source it returns direct-play exactly when the height is known,
\* is not zero and is at or below 720 and container and codec are accepted,
\* and transcode otherwise, unknown height and height zero included; it
\* changes nothing.
C8_KnownHeightAtMost720 ==
    ev.op = "choose_mode" =>
        LET m == ev.media_file
        IN  /\ ev.result =
                   IF \/ EndsWith(m.file_path, M3U8)
                      \/ ( /\ m.height # None
                           /\ m.height[1] # 0
                           /\ m.height[1] <= 720
                           /\ Accepted(m) )
                   THEN "direct-play" ELSE "transcode"
            /\ playback_sessions = <<>> /\ files = {} /\ held = {}

\* a source of height zero in an accepted container and codec was sent to transcode
C8_Witness ==
    /\ ev.op = "choose_mode"
    /\ ~EndsWith(ev.media_file.file_path, M3U8)
    /\ ev.media_file.height = <<0>>
    /\ Accepted(ev.media_file)
    /\ ev.result = "transcode"

-----------------------------------------------------------------------------
(* Properties of commands and their broadcasts, checked under Spec *)

\* a step in which _handle_playback_control accepted a command
AcceptedStep ==
    /\ steps' = steps + 1
    /\ now' = now
    /\ ev'.op \in Actions
    /\ ev'.reply = NoReply

\* the users whose sockets are in the room of a watch session
Connected(wsid) == {u \in Users : <<u, wsid>> \in rooms}

\* the position a read of session w at time t extrapolates, before rounding
Extrapolated(w, t) ==
    IF w.is_playing
    THEN w.current_position_seconds
         + (IF t >= w.last_state_updated_at THEN t - w.last_state_updated_at ELSE 0)
    ELSE w.current_position_seconds

\* C11: every accepted play, pause, seek or state_sync command is answered by
\* one state_sync broadcast to the room of its watch session, carrying the
\* session's state after the command: its play flag and its position as the
\* server computes it at that moment; a message to the room is the one
\* message every socket in the room gets.
C11_CommandBroadcast ==
    [][AcceptedStep =>
          \E m \in ev'.bcast :
              /\ ev'.bcast = {m}
              /\ m.room = ev'.wsid
              /\ m.payload.watch_session_id = ev'.wsid
              /\ m.payload.is_playing = watch_sessions'[ev'.wsid].is_playing
              /\ NearestMilli(m.payload.position_seconds,
                              Extrapolated(watch_sessions'[ev'.wsid], now))]_vars

\* both users joined session 1 over their sockets, one sent play, and the
\* room got a state_sync saying the session is playing
C11_Witness ==
    /\ ev.op = "play"
    /\ ev.reply = NoReply
    /\ ev.wsid = 1
    /\ Connected(1) = {1, 2}
    /\ \E m \in ev.bcast : m.room = 1 /\ m.payload.is_playing

\* C12: an accepted pause command leaves the session paused and stores the
\* position extrapolated at the moment of the pause: the stored position plus
\* the elapsed time if the session was playing, the stored position if it was
\* paused.
C12_PauseStoresExtrapolated ==
    [][(AcceptedStep /\ ev'.op = "pause") =>
          /\ ~watch_sessions'[ev'.wsid].is_playing
          /\ watch_sessions'[ev'.wsid].current_position_seconds
                 = Extrapolated(watch_sessions[ev'.wsid], now)]_vars

\* the requested position of a command, clamped to at least 0
Clamped(arg) == IF arg[1] >= 0 THEN arg[1] ELSE 0

\* the time after a seek at which the scenario reads the session again
ReadDelay == 5 * MicrosPerSecond

\* C13: an accepted seek command that carries a position leaves the play flag
\* as it was, stores the requested position clamped to at least 0 and sets
\* the checkpoint timestamp to now; so a read 5 seconds after a seek on a
\* playing session reports the clamped position plus 5 seconds (125 after a
\* seek to 120).
C13_SeekOverwrites ==
    [][(AcceptedStep /\ ev'.op = "seek" /\ ev'.arg # NoPosition) =>
          LET after == watch_sessions'[ev'.wsid]
          IN  /\ after.is_playing = watch_sessions[ev'.wsid].is_playing
              /\ after.current_position_seconds = Clamped(ev'.arg)
              /\ after.last_state_updated_at = now
              /\ after.is_playing =>
                     \A p \in StatePayloads(ev'.wsid, after, now + ReadDelay) :
                         NearestMilli(p.position_seconds, Clamped(ev'.arg) + ReadDelay)]_vars

\* a playing session was sought to 120, and a read 5 seconds later gives 125
C13_Witness ==
    /\ ev.op = "seek"
    /\ ev.reply = NoReply
    /\ ev.arg = <<120 * MicrosPerSecond>>
    /\ watch_sessions[ev.wsid].is_playing
    /\ watch_sessions[ev.wsid].current_position_seconds = 120 * MicrosPerSecond
    /\ \A p \in StatePayloads(ev.wsid, watch_sessions[ev.wsid], now + ReadDelay) :
           p.position_seconds = 125 * MicrosPerSecond

\* C14: a watch session is created active and paused at position 0 with its
\* checkpoint timestamp equal to its creation time, and an accepted play
\* command on an active session leaves it playing.
C14_CreatedPausedThenPlay ==
    [][/\ (steps' = steps + 1 /\ now' = now /\ ev'.op = "create"
             /\ ev'.reply.kind = "created") =>
           /\ Len(watch_sessions') = Len(watch_sessions) + 1
           /\ ev'.wsid = Len(watch_sessions')
           /\ LET created == watch_sessions'[ev'.wsid]
              IN  /\ created.is_active
                  /\ ~created.is_playing
                  /\ created.current_position_seconds = 0
                  /\ created.created_at = now
                  /\ created.last_state_updated_at = created.created_at
       /\ (AcceptedStep /\ ev'.op = "play" /\ watch_sessions[ev'.wsid].is_active) =>
           /\ watch_sessions'[ev'.wsid].is_playing
           /\ watch_sessions'[ev'.wsid].is_active]_vars

\* a session created in this run was set playing by its creator
C14_Witness ==
    /\ ev.op = "play"
    /\ ev.reply = NoReply
    /\ ev.wsid = 2
    /\ watch_sessions[2].created_at = watch_sessions[2].last_state_updated_at
    /\ watch_sessions[2].is_active
    /\ watch_sessions[2].is_playing

\* a step in which a command came from a caller who is not authenticated, named
\* no watch session, or has no join record for the session named
RejectedStep ==
    /\ steps' = steps + 1 /\ now' = now
    /\ ev'.op \in Actions
    /\ \/ ev'.user = NoUser
       \/ ev'.wsid = 0
       \/ \A i \in 1..Len(participants) :
             participants[i].watch_session_id # ev'.wsid \/ participants[i].user_id # ev'.user

\* C29: a rejected command is answered with an error to its sender, sends no
\* state_sync to any room and leaves every watch session and every participant
\* record unchanged.
C29_RejectedChangesNothing ==
    [][RejectedStep =>
          /\ ev'.reply.kind = "error"
          /\ ev'.bcast = {}
          /\ watch_sessions' = watch_sessions
          /\ participants' = participants
      ]_vars

\* a command of user 2, who has not joined session 1, was turned away
C29_Witness ==
    /\ ev.op \in Actions
    /\ ev.user = 2
    /\ ev.wsid = 1
    /\ ev.reply = ErrorReply("join session before controlling playback")
    /\ ev.bcast = {}
    /\ Len(participants) = 1

\* C26: the stored position of every watch session is never negative,
\* whatever commands and requested positions came, and so is every position
\* sent in a state_sync.
C26_PositionNonNegative ==
    /\ \A i \in 1..Len(watch_sessions) : watch_sessions[i].current_position_seconds >= 0
    /\ \A p \in SentPayloads : p.position_seconds >= 0

\* a command that asked for position -5 was accepted and left position 0
C26_Witness ==
    /\ ev.op \in Actions \ {"state_sync"}
    /\ ev.reply = NoReply
    /\ ev.arg = <<0 - 5000000>>
    /\ watch_sessions[ev.wsid].current_position_seconds = 0
    /\ \E m \in ev.bcast : m.payload.position_seconds = 0

-----------------------------------------------------------------------------
(* Properties of the drift-correction loop, checked under DriftSpec and FaultSpec *)

\* the sessions the last operation sent a state_sync to
Rebroadcast == {m.room : m \in ev.bcast}

RecentlySeen(t) ==
    { wsid \in 1..Len(watch_sessions) :
        \E i \in 1..Len(participants) :
            /\ participants[i].watch_session_id = wsid
            /\ t - participants[i].last_seen_at <= DriftWindow }

\* C16: a wake-up of the drift-correction loop sends one state_sync to each
\* session that has a participant seen within the last 45 seconds, and none to
\* any other session.
C16_DriftRebroadcastsRecent ==
    (ev.op = "drift" /\ ev.reply = NoReply) =>
        /\ Rebroadcast = RecentlySeen(lastDrift)
        /\ Cardinality(ev.bcast) = Cardinality(RecentlySeen(lastDrift))
        /\ \A m \in ev.bcast : m.payload.watch_session_id = m.room

\* a wake-up 46 seconds in, after a ping in session 1 only, reached session 1
\* and left session 2 out
C16_Witness ==
    /\ ev.op = "drift"
    /\ ev.reply = NoReply
    /\ now = lastDrift
    /\ Rebroadcast = {1}
    /\ \E i \in 1..Len(participants) :
          /\ participants[i].watch_session_id = 2
          /\ lastDrift - participants[i].last_seen_at > DriftWindow

\* a step in which _handle_playback_control ran to its commit
CommandStep ==
    steps' = steps + 1 /\ now' = now /\ ev'.op \in Actions /\ ev'.reply = NoReply

\* a step of the drift-correction loop
DriftStep ==
    steps' = steps + 1 /\ now' = now /\ ev'.op = "drift"

\* C27: only a command changes a watch session's play flag, stored position
\* or checkpoint: a join (HTTP or socket), a leave, a rejected command, the
\* passing of time and an iteration of the drift-correction loop leave the
\* three fields of every session as they were, and the drift-correction loop
\* leaves every participant's last-seen time as it was.
C27_OnlyCommandsWrite ==
    [][ /\ ~CommandStep =>
             \A i \in 1..Len(watch_sessions) :
                 /\ watch_sessions'[i].is_playing = watch_sessions[i].is_playing
                 /\ watch_sessions'[i].current_position_seconds =
                        watch_sessions[i].current_position_seconds
                 /\ watch_sessions'[i].last_state_updated_at =
                        watch_sessions[i].last_state_updated_at
        /\ DriftStep =>
             /\ Len(participants') = Len(participants)
             /\ \A i \in 1..Len(participants) :
                   participants'[i].last_seen_at = participants[i].last_seen_at
      ]_vars

\* the loop has rebroadcast a playing session two seconds after its play
\* command and left its checkpoint where the command put it
C27_Witness ==
    /\ ev.op = "drift"
    /\ now = lastDrift
    /\ \E m \in ev.bcast :
          /\ m.payload.is_playing
          /\ m.payload.position_seconds = DriftSleep
          /\ watch_sessions[m.room].current_position_seconds = 0
          /\ watch_sessions[m.room].last_state_updated_at = 0

\* a step in which a join handler admitted its caller
JoinedStep ==
    /\ steps' = steps + 1 /\ now' = now
    /\ ev'.op \in {"join", "socket_join"}
    /\ ev'.reply.kind = "state_sync"

\* C28: an accepted command (play, pause, seek, state_sync, reconciled or
\* not) and a successful join set the caller's last-seen time for the session
\* to the current time and change no other participant record.
C28_LastSeenRefreshed ==
    [][(CommandStep \/ JoinedStep) =>
          /\ \E i \in 1..Len(participants') :
                /\ participants'[i].watch_session_id = ev'.wsid
                /\ participants'[i].user_id = ev'.user
                /\ participants'[i].last_seen_at = now
          /\ \A i \in 1..Len(participants) :
                (participants[i].watch_session_id # ev'.wsid \/ participants[i].user_id # ev'.user)
                   => participants'[i] = participants[i]
      ]_vars

\* a state_sync that was reconciled, 45 seconds in, refreshed its sender's
\* record and left the other participant's at 0
C28_Witness ==
    /\ ev.op = "state_sync"
    /\ ev.reply = NoReply
    /\ ev.arg # NoPosition
    /\ now >= DriftWindow
    /\ watch_sessions[ev.wsid].last_state_updated_at = now
    /\ \E i, j \in 1..Len(participants) :
          /\ participants[i].user_id = ev.user
          /\ participants[i].watch_session_id = ev.wsid
          /\ participants[i].last_seen_at = now
          /\ participants[j].last_seen_at = 0

\* a step in which _handle_playback_control ran, to its commit or to a rejection
AddressedStep ==
    steps' = steps + 1 /\ now' = now /\ ev'.op \in Actions

\* C33: a command addressed to watch session A changes no other watch session
\* and no participant record but its sender's record for A, emits state
\* messages to A's channel only, and leaves the membership of every channel as
\* it was.
C33_CommandsStayInSession ==
    [][AddressedStep =>
          /\ Len(watch_sessions') = Len(watch_sessions)
          /\ \A i \in 1..Len(watch_sessions) :
                i # ev'.wsid => watch_sessions'[i] = watch_sessions[i]
          /\ Len(participants') = Len(participants)
          /\ \A i \in 1..Len(participants) :
                (participants[i].watch_session_id # ev'.wsid \/ participants[i].user_id # ev'.user)
                   => participants'[i] = participants[i]
          /\ \A m \in ev'.bcast : m.room = ev'.wsid
          /\ rooms' = rooms
      ]_vars

\* user 2 has sought in session 2 some time after user 1 started session 1:
\* session 1 and user 1's record for it are as the play command left them, and
\* the one message went to session 2's channel
C33_Witness ==
    /\ ev.op = "seek" /\ ev.wsid = 2 /\ ev.user = 2 /\ ev.reply = NoReply
    /\ ev.bcast # {}
    /\ watch_sessions[2].current_position_seconds = 120 * MicrosPerSecond
    /\ watch_sessions[2].last_state_updated_at = now
    /\ watch_sessions[1].is_playing
    /\ watch_sessions[1].last_state_updated_at < now
    /\ \A m \in ev.bcast : m.room = 2
    /\ \E i \in 1..Len(participants) :
          /\ participants[i].watch_session_id = 1
          /\ participants[i].last_seen_at < now

\* C30: a play or pause without a requested position leaves the extrapolated
\* position where it was: the position read right after the command is the
\* position read right before it, and a play on a playing session or a pause
\* on a paused one leaves the play flag as it was too.
C30_PlayPauseKeepPosition ==
    [][(CommandStep /\ ev'.op \in {"play", "pause"} /\ ev'.arg = NoPosition) =>
          LET before == watch_sessions[ev'.wsid]
              after == watch_sessions'[ev'.wsid]
          IN  /\ Extrapolated(after, now) = Extrapolated(before, now)
              /\ \A m \in ev'.bcast :
                    NearestMilli(m.payload.position_seconds, Extrapolated(before, now))
              /\ (before.is_playing <=> ev'.op = "play") =>
                    after.is_playing = before.is_playing
      ]_vars

\* a session that had played for two seconds was paused at two seconds
C30_Witness ==
    /\ ev.op = "pause"
    /\ ev.reply = NoReply
    /\ ev.arg = NoPosition
    /\ ~watch_sessions[ev.wsid].is_playing
    /\ watch_sessions[ev.wsid].current_position_seconds = DriftSleep
    /\ watch_sessions[ev.wsid].last_state_updated_at = DriftSleep

\* C17: a wake-up that fails to reach one session still rebroadcasts every
\* other due session, and the loop keeps running.
C17_LoopSurvivesFailure ==
    /\ drift_running
    /\ (ev.op = "drift" /\ ev.reply # NoReply) =>
           Rebroadcast = RecentlySeen(lastDrift) \ {ev.wsid}

\* the sessions that carry a join code
WithCode(code) == {i \in 1..Len(watch_sessions) : watch_sessions[i].join_code = code}

\* C22: a join (HTTP or socket) with a code that no session has, or that an
\* inactive session has, answers with an error and adds no participant record
\* and no room membership; a join with the code of an active session answers
\* with that session's state, its position extrapolated to the time of the join.
C22_JoinByCode ==
    [][\A u \in Users, c \in DriftCodes :
          (JoinWatchSession(u, c) \/ SocketJoin(u, c)) =>
             IF \A i \in WithCode(c) : ~watch_sessions[i].is_active
             THEN /\ ev'.reply.kind = "error"
                  /\ participants' = participants
                  /\ rooms' = rooms
             ELSE /\ ev'.reply.kind = "state_sync"
                  /\ \E i \in WithCode(c) :
                        /\ ev'.reply.payload.watch_session_id = i
                        /\ ev'.reply.payload.join_code = c
                        /\ ev'.reply.payload.is_playing = watch_sessions[i].is_playing
                        /\ NearestMilli(ev'.reply.payload.position_seconds,
                                        Extrapolated(watch_sessions[i], now))
      ]_vars

\* a join with the code of the ended session, or with a code no session has,
\* was turned away and left the two participant records and no room
C22_Witness ==
    /\ ev.op \in {"join", "socket_join"}
    /\ ev.user \in Users
    /\ ev.reply = ErrorReply("watch session not found")
    /\ Len(participants) = 2
    /\ rooms = {}
    /\ \E i \in 1..Len(watch_sessions) : ~watch_sessions[i].is_active

-----------------------------------------------------------------------------
(* Properties of concurrent commands, checked under RaceSpec *)

\* the session after the first k commands, applied one after the other in
\* arrival order, each at the time it arrived
RECURSIVE SerialState(_)
SerialState(k) ==
    IF k = 0 THEN NewWatchSession(1, 1, "AAAAAA", 0)
    ELSE UpdateWatchSessionState(SerialState(k - 1), handlers[k].action,
                                 handlers[k].arg, handlers[k].t)

\* C18: once every command on a watch session has committed, the stored state
\* is the one that applying the commands one after the other in arrival order
\* gives: no update of the play flag, the position or the checkpoint is lost.
C18_SerialInArrivalOrder ==
    (\A i \in 1..Len(handlers) : handlers[i].committed) =>
        watch_sessions[1] = SerialState(Len(handlers))

-----------------------------------------------------------------------------
(* Properties of playback-session creation, checked under AssetSpec *)

CreateStep ==
    steps' = steps + 1 /\ now' = now /\ ev'.op = "create_playback_session"

\* C19: a creation request whose artifact preparation fails (the transcoder
\* exits non-zero, or the source playlist is missing) answers with a server
\* error, leaves no PlaybackSession record behind and issues no signed master
\* URL; a request that succeeds adds exactly its own record.
C19_FailedCreateRolledBack ==
    [][CreateStep =>
         /\ (ev'.status = 500 =>
                /\ playback_sessions' = playback_sessions
                /\ held' = held
                /\ ev'.token = NoToken
                /\ ev'.body = <<>>)
         /\ (ev'.status # 500 =>
                Len(playback_sessions') = Len(playback_sessions) + (IF ev'.status = 200 THEN 1 ELSE 0))
      ]_vars

\* a request has failed in preparation: its id is that of no record
C19_Witness ==
    /\ ev.op = "create_playback_session"
    /\ ev.status = 500
    /\ ev.playback_session_id = PriorPlayback + 1
    /\ Len(playback_sessions) = PriorPlayback

-----------------------------------------------------------------------------
(* Properties of the playlist rewriter, checked under RewriteSpec *)

\* the lines of a rewritten text, split at its newline characters
RECURSIVE OutputLinesFrom(_, _, _)
OutputLinesFrom(text, i, line) ==
    IF i > Len(text) THEN (IF line = <<>> THEN <<>> ELSE <<line>>)
    ELSE IF text[i].kind = "char" /\ text[i].c = "\n"
    THEN <<line>> \o OutputLinesFrom(text, i + 1, <<>>)
    ELSE OutputLinesFrom(text, i + 1, Append(line, text[i]))

OutputLines(text) == OutputLinesFrom(text, 1, <<>>)

\* a line the rewriter is to pass through: blank, a comment, or an absolute
\* http:// or https:// URL
PassedThrough(line) ==
    \/ Strip(line) = <<>>
    \/ Head(Strip(line)) = "#"
    \/ StartsWith(Strip(line), <<"h", "t", "t", "p", ":", "/", "/">>)
    \/ StartsWith(Strip(line), <<"h", "t", "t", "p", "s", ":", "/", "/">>)

\* line i of the output is line i of the input, rewritten or passed through
LineForLine(input, output) ==
    \A i \in 1..Len(input) :
        /\ i <= Len(output)
        /\ IF PassedThrough(input[i])
           THEN output[i] = [j \in 1..Len(input[i]) |-> [kind |-> "char", c |-> input[i][j]]]
           ELSE /\ Len(output[i]) = 1
                /\ output[i][1].kind = "url"
                /\ output[i][1].token.form \notin {"none", "empty"}

\* C20, as claimed: the rewritten playlist has the lines of the playlist read,
\* in order and in number, each one passed through unchanged if it is blank, a
\* comment or an absolute http/https URL, and replaced by a token-bearing
\* asset URL otherwise.
C20_KeepsLinesAndCount ==
    ev.op = "rewrite_playlist" =>
        /\ Len(OutputLines(ev.result)) = Len(SplitLines(ev.content))
        /\ LineForLine(SplitLines(ev.content), OutputLines(ev.result))

\* C20, amended: the same for a playlist of at least one line; a playlist
\* without any line comes back as one blank line.
C20_KeepsLinesOfNonEmpty ==
    ev.op = "rewrite_playlist" =>
        /\ Len(OutputLines(ev.result)) =
               (IF SplitLines(ev.content) = <<>> THEN 1 ELSE Len(SplitLines(ev.content)))
        /\ SplitLines(ev.content) = <<>> => OutputLines(ev.result) = << <<>> >>
        /\ LineForLine(SplitLines(ev.content), OutputLines(ev.result))

\* a playlist of a comment and a relative reference, closed by \r\n, came back
\* as the comment and a signed URL
C20_Witness ==
    /\ ev.op = "rewrite_playlist"
    /\ SplitLines(ev.content) = <<EXTM3U, SEG0_TS>>
    /\ ev.content[Len(EXTM3U) + 1] = "\r"
    /\ Len(OutputLines(ev.result)) = 2
    /\ OutputLines(ev.result)[2][1].kind = "url"

\* the directory of a playlist path: what precedes its last slash
Directory(path) ==
    LET slashes == {i \in 1..Len(path) : path[i] = "/"}
    IN  IF slashes = {} THEN <<>>
        ELSE SubSeq(path, 1, (CHOOSE i \in slashes : \A j \in slashes : j <= i) - 1)

\* a reference resolved against the directory of the playlist it stands in
ResolvedAgainst(dir, reference) ==
    IF dir = <<>> THEN reference ELSE dir \o <<"/">> \o reference

\* the delays of a fetch within the token's max age
FetchDelays ==
    {0, MicrosPerSecond - 1, PLAYBACK_TOKEN_MAX_AGE_SECONDS * MicrosPerSecond}

\* C21: every relative reference of a playlist at D/name of session S is
\* replaced by a URL of session S whose asset path is the reference resolved
\* against D, with a token signed for exactly that session and path, and a
\* fetch of that URL within the token's max age passes verify_token.
C21_ReferencesResolvedAndSigned ==
    ev.op = "rewrite_playlist" =>
        LET input == SplitLines(ev.content)
            output == OutputLines(ev.result)
        IN  \A i \in 1..Len(input) :
               ~PassedThrough(input[i]) =>
                  /\ i <= Len(output)
                  /\ Len(output[i]) = 1
                  /\ output[i][1].kind = "url"
                  /\ LET u == output[i][1]
                         expected == ResolvedAgainst(Directory(ev.relative_path),
                                                     Strip(input[i]))
                     IN  /\ u.playback_session_id = ev.playback_session_id
                         /\ u.asset_path = expected
                         /\ u.token.payload.playback_session_id = <<ev.playback_session_id>>
                         /\ u.token.payload.path = <<expected>>
                         /\ \A d \in FetchDelays :
                               VerifyToken(u.token, PLAYBACK_TOKEN_MAX_AGE_SECONDS,
                                           u.playback_session_id, u.asset_path, now + d) = "True"

\* a segment named in the playlist of profile hls-720p, rewritten within the
\* second, came back as a URL for hls-720p/seg0.ts
C21_Witness ==
    /\ ev.op = "rewrite_playlist"
    /\ now = 600000
    /\ ev.relative_path = HLS_INDEX
    /\ \E i \in 1..Len(ev.result) :
          /\ ev.result[i].kind = "url"
          /\ ev.result[i].asset_path = HLS_720P \o <<"/">> \o Strip(SEG0_TS)

-----------------------------------------------------------------------------
(* Properties of concurrent creations, checked under CreateRaceSpec *)

\* C23: whatever create-watch-session requests have run, and however they
\* overlapped, no two watch sessions carry the same join code.
C23_JoinCodesUnique ==
    \A i, j \in 1..Len(watch_sessions) :
        i # j => watch_sessions[i].join_code # watch_sessions[j].join_code

\* two requests drew the same code while the table was empty; the first to
\* flush got the row, the second was refused
C23_Witness ==
    /\ Len(handlers) = 2
    /\ handlers[1].join_code = handlers[2].join_code
    /\ handlers[1].existing = 0 /\ handlers[2].existing = 0
    /\ handlers[1].committed /\ handlers[2].committed
    /\ Len(watch_sessions) = 1
    /\ ev.reply = ErrorReply("IntegrityError")

-----------------------------------------------------------------------------
(* Properties of the artifact preparer, checked under PrepareSpec *)

\* the master playlist of the session the last call prepared
PreparedMaster == << <<"o">>, Decimal(ev.playback_session_id), MASTER_M3U8 >>

\* the source of the last call, as a path in the library
PreparedSource ==
    PathParts(Split(ev.media_file.file_path), 1)

\* C24: for a source that is a playlist (.m3u8), prepare_session reports mode
\* direct-play and leaves a master playlist with the lines of the source; when
\* the source is gone it fails with a missing-source error and the session
\* directory holds no master playlist.
C24_PlaylistCopiedOrMissing ==
    (ev.op = "prepare_session" /\ EndsWith(ev.media_file.file_path, M3U8)) =>
        IF \E f \in LibraryFiles : f.parts = PreparedSource
        THEN /\ ev.result.ok
             /\ ev.result.mode = "direct-play"
             /\ \E g \in files :
                   /\ g.parts = PreparedMaster
                   /\ \A f \in LibraryFiles : f.parts = PreparedSource => g.lines = f.lines
        ELSE /\ ~ev.result.ok
             /\ ev.result.raised = "FileNotFoundError"
             /\ \A g \in files : g.parts # PreparedMaster

\* session 1 held a master playlist; a preparation for a playlist that is gone
\* from the library failed and left none
C24_Witness ==
    /\ ev.op = "prepare_session"
    /\ steps = 1
    /\ ev.playback_session_id = 1
    /\ ev.media_file = media_files[4]
    /\ ev.result.raised = "FileNotFoundError"
    /\ \E g \in files : g.parts[2] = Decimal(2)
    /\ \A g \in files : g.parts # PreparedMaster

\* C25: a preparation that reports mode direct-play has not run the external
\* transcoder.
C25_DirectPlayNotTranscoded ==
    (ev.op = "prepare_session" /\ ev.result.mode = "direct-play") => ~ev.result.ffmpeg

-----------------------------------------------------------------------------
(* Properties of concurrent joins, checked under JoinRaceSpec *)

\* C31: whatever create-watch-session and join requests have run, and however
\* they overlapped (two joins of one user included), there is at most one
\* participant row for each pair of a watch session and a user.
C31_OneParticipantPerUser ==
    \A i, j \in 1..Len(participants) :
        (/\ participants[i].watch_session_id = participants[j].watch_session_id
         /\ participants[i].user_id = participants[j].user_id) => i = j

-----------------------------------------------------------------------------
(* Properties of playback-session isolation, checked under AssetSpec *)

\* C32: no asset fetch addressed to a playback session A, whatever token
\* issued for A it carries (the tokens the rewriter signs for the references
\* of A's playlists included), returns a file located in the output directory
\* of another playback session B.
C32_SessionsIsolated ==
    (ev.op = "serve_playback_asset" /\ ev.status = 200) =>
        \A B \in 1..Len(playback_sessions) :
            B # ev.playback_session_id =>
                ~IsUnder(BaseParts(B),
                         CandidateParts(ev.playback_session_id, ev.asset_path))

====
